---------------------------- MODULE Spec2Model ----------------------------
(***************************************************************************)
(* A model of the vessels value-transport core.                            *)
(*                                                                         *)
(*  - src/src/value.rs: the process-wide fork counter IDX and fork-type    *)
(*    table CHANNELS, IdChannel (Target::new_with, its Stream and Sink),   *)
(*    IdChannelFork (the two unbounded mpsc queues of a sub-channel, its   *)
(*    Stream, Sink, Fork and Channel impls), and the Value impls of the    *)
(*    primitives, of () and of Future<T, E>.                               *)
(*  - src/src/kind/sink.rs: KindSink and the Kind impl of Sink<T, E>.      *)
(*  - src/src/value.rs, src/src/format/as_bytes.rs: the serde impls of     *)
(*    ChannelItem (ItemVisitor, the seed Id) and AsBytes.                  *)
(*  - src/vessels_derive/src/lib.rs: the proxy (Concrete_Remote), the      *)
(*    shim (Protocol_Shim) and the serde impls of Call and Response that   *)
(*    #[protocol] generates; the Value impl and the wire enum that         *)
(*    #[derive(Value)] generates.                                          *)
(*  - src/src/reflection/mod.rs: Cast::downcast and Cast::upcast.          *)
(***************************************************************************)
EXTENDS Integers, Sequences, FiniteSets, TLC

\* ---------------------------------------------------------------- bounds
\* IdChannels created in one run of Spec, of ForkSpec; sub-channels with a
\* construct end created in one run of PairSpec.
MaxChannels == 2
MaxApiChannels == 1
MaxPairs == 1
\* Frames a user-defined kind's task / consumer sends, over all sub-channels.
MaxFrames == 4
\* Primitive values are 0..MaxVal.
MaxVal == 1
\* Calls of Fork::fork and of Fork::get_fork in one run.
MaxForkCalls == 2
MaxGetForks == 1
\* Fork ids that inbound frames and fork references may name are 0..MaxId.
MaxId == 1
\* Items fed into a constructed Sink; sends the host's underlying sink fails.
MaxItems == 3
MaxSinkErrors == 1
\* Entries of an inbound map; bytes of an inbound frame.
MaxEntries == 2
MaxBytes == 2
\* Method invocations on the proxy; frames written by hand, and the
\* arguments such a frame may carry.
MaxCalls == 3
MaxCrafted == 2
MaxArgs == 2
\* Casts of one reflected object in a row; the objects are 0..MaxObj.
MaxCasts == 2
MaxObj == 1
\* Variants of a user enum with derived Value, fields of one variant, and
\* items the deconstruct of one field puts on its context.
MaxVariants == 2
MaxFields == 2
MaxFieldItems == 1
\* Items the deconstruct of one call's return value puts on its context;
\* calls whose return values do so side by side.
MaxRetItems == 2
MaxPending == 2
\* The elements of a crafted sequence that is read as a Response.
MaxWireLen == 3
\* Threads that hold a clone of one proxy; the invocations they make.
MaxThreads == 2
MaxInvocations == 3

Values == 0..MaxVal
NoVal == -1
NoId == -1

VARIABLES
    IDX,        \* static IDX: AtomicU64
    CHANNELS,   \* static CHANNELS: Mutex<HashMap<u64, [TypeId; 2]>>
    forks,      \* the sub-channels created by IdChannelFork::new_with
    getForks,   \* the futures returned by Fork::get_fork
    lastIn,     \* the last inbound ChannelItem and what it came to
    ksink,      \* the KindSink that Sink::construct returned (its item task)
    fed,        \* the items start_send has accepted, in order
    peerForks,  \* the forks the peer's channel allocated: handle -> item
    sinkWire,   \* ForkHandles in flight from the KindSink to the host's task
    host,       \* the host's Sink::deconstruct task
    hostTrace,  \* the items given to the host's underlying sink, in order
    replies,    \* ForkHandles of errors in flight from the host to the peer
    hostForks,  \* the forks the host's channel allocated: handle -> error
    sinkLog,    \* the fork and send calls each side's channel has completed
    codec,      \* the last (de)serialization: its input and what it came to
    remote,     \* the remote proxy (Concrete_Remote) of a #[protocol] trait
    shim,       \* the host's Protocol_Shim and the implementation it holds
    callWire,   \* serialized Calls in flight from the proxy to the shim
    respWire,   \* serialized Responses in flight from the shim to the proxy
    protoLog,   \* what was issued, yielded, received, invoked, emitted, delivered
    refl,       \* a reflected object and the casts it has been through
    derive,     \* a value of a type with #[derive(Value)], its two ends
    serde,      \* a Response or an inlined-response Call through its serde
    proxy       \* a Concrete_Remote shared by the threads that hold its clones

valueVars == <<IDX, CHANNELS, forks, getForks, lastIn>>
sinkVars == <<ksink, fed, peerForks, sinkWire, host, hostTrace, replies, hostForks, sinkLog>>
codecVars == <<codec>>
protoVars == <<remote, shim, callWire, respWire, protoLog>>
reflVars == <<refl>>
deriveVars == <<derive>>
serdeVars == <<serde>>
proxyVars == <<proxy>>
vars == <<valueVars, sinkVars, codecVars, protoVars, reflVars, deriveVars, serdeVars,
          proxyVars>>

\* What the operations of value.rs, of kind/sink.rs, of the ChannelItem
\* serde, of the protocol and of the reflection leave alone.
nonValueVars ==
    <<sinkVars, codecVars, protoVars, reflVars,
      deriveVars, serdeVars, proxyVars>>
nonSinkVars ==
    <<valueVars, codecVars, protoVars, reflVars,
      deriveVars, serdeVars, proxyVars>>
nonCodecVars ==
    <<valueVars, sinkVars, protoVars, reflVars,
      deriveVars, serdeVars, proxyVars>>
nonProtoVars ==
    <<valueVars, sinkVars, codecVars, reflVars,
      deriveVars, serdeVars, proxyVars>>
nonReflVars ==
    <<valueVars, sinkVars, codecVars, protoVars,
      deriveVars, serdeVars, proxyVars>>
nonDeriveVars ==
    <<valueVars, sinkVars, codecVars, protoVars,
      reflVars, serdeVars, proxyVars>>
nonSerdeVars ==
    <<valueVars, sinkVars, codecVars, protoVars,
      reflVars, deriveVars, proxyVars>>
nonProxyVars ==
    <<valueVars, sinkVars, codecVars, protoVars,
      reflVars, deriveVars, serdeVars>>

\* ---------------------------------------------------------------- kinds
\* "prim": a kind generated by primitive_impl; "future": Future<T, E> with
\* primitive T and E; "user": a user-defined Value whose task sends and
\* receives frames of its own over the channel it is given.
Kinds == {"prim", "future", "user"}

\* The kinds whose items are (): the unit type (), PhantomData<T>.
ZeroSized == {"unit"}

\* The values handed to new_with: a primitive v, a future that resolves
\* Ok(v) or Err(v), a user value.
ValuesOf(k) ==
    CASE k = "prim" -> {[tag |-> "val", val |-> v] : v \in Values}
      [] k = "future" -> {[tag |-> t, val |-> v] : t \in {"Ok", "Err"}, v \in Values}
      [] k \in ZeroSized -> {[tag |-> "unit", val |-> 0]}
      [] OTHER -> {[tag |-> "user", val |-> 0]}

\* [TypeId::of::<V::ConstructItem>(), TypeId::of::<V::DeconstructItem>()]
TypeIds(k) ==
    CASE k = "prim" -> <<"prim", "unit">>
      [] k = "future" -> <<"FResult", "unit">>
      [] k \in ZeroSized -> <<"unit", "unit">>
      [] OTHER -> <<"UserC", "UserD">>

\* --------------------------------------------------------------- helpers
IsPrefix(s, t) == Len(s) <= Len(t) /\ SubSeq(t, 1, Len(s)) = s

ForkIds == 1..Len(forks)

\* The task holds the channel's UnboundedSender (o) until it ends.
TaskAlive(f) == forks[f].task \in {"spawned", "running"}

FramesSent ==
    LET n[i \in 0..Len(forks)] ==
            IF i = 0 THEN 0
            ELSE n[i - 1] + Len(forks[i].tried) + Len(forks[i].sentDown)
    IN n[Len(forks)]

ForkCalls ==
    LET n[i \in 0..Len(forks)] ==
            IF i = 0 THEN 0 ELSE n[i - 1] + Len(forks[i].forked)
    IN n[Len(forks)]

\* ------------------------------------------------------ Sink::construct
\* KindSink { channel, _marker, item: Box::pin(ready(())) }. The item task
\* is "ready" (the initial ready(())) or "send" (the async block that
\* start_send builds); its stage says how far polls have driven it.
SinkConstruct ==
    [item |-> [kind |-> "ready", stage |-> "start", val |-> NoVal, handle |-> 0],
     last |-> [op |-> "construct", result |-> "Ok"]]

\* No (de)serialization has been done yet.
NoItem == [channel |-> NoId, data |-> [ty |-> "none", tag |-> "none", val |-> NoVal]]

NoCodec ==
    [op |-> "none", hr |-> FALSE, item |-> NoItem, input |-> <<>>,
     result |-> [tag |-> "none", item |-> NoItem, error |-> "none"]]

\* ------------------------------------------------- a #[protocol] trait
\* The trait the proxy and the shim are generated for:
\*   trait Counter { fn next(&mut self) -> u64; fn add(&mut self, x: u64) -> u64; }
\* Procedure.arg_types of its methods, by method index.
ArgCounts == <<0, 1>>
NumMethods == Len(ArgCounts)
Methods == 0..(NumMethods - 1)

\* The implementation that the host holds starts as a counter at 7.
CounterInit == 7

\* Concrete_Remote::new()
RemoteNew == [ids |-> <<>>, last_id |-> 0, queue |-> <<>>, channels |-> <<>>]

\* Protocol_Shim::new(inner): inner_stream is Never_Ready, no stream merged in.
ShimNew == [inner |-> CounterInit, inner_stream |-> <<>>]

\* ----------------------------------------------------- reflected objects
\* The type ids of the reflected traits of a program,
\*   trait Base; trait Mid: Base; trait Sub: Mid + Base; trait Other;
\* and what Trait::supertraits returns for an object of each.
ReflTypes == {"Sub", "Mid", "Base", "Other"}

supertraits(ty) ==
    CASE ty = "Sub" -> {"Mid", "Base"}
      [] ty = "Mid" -> {"Base"}
      [] OTHER -> {}

\* A Box<dyn T>: this is TypeId::of::<dyn T>(), id names the object behind it.
Object(ty, id) == [this |-> ty, id |-> id]

NoObject == Object("none", NoId)

\* ------------------------------------------------- #[derive(Value)] types
\* A type with a derived Value is given by its shape: the number of fields of
\* each of its variants, in declaration order (a struct has one variant).
Shapes == UNION {[1..n -> 0..MaxFields] : n \in 1..MaxVariants}

NoVariant == 0

\* Nothing was deconstructed yet.
NoDerive ==
    [shape |-> <<>>, variant |-> NoVariant, put |-> <<>>, taken |-> <<>>,
     flag |-> <<>>, sent |-> <<>>, wire |-> <<>>,
     built |-> [state |-> "none", variant |-> NoVariant]]

\* ------------------------------------------- serde of Call and Response
\* Nothing has been serialized yet.
NoWire ==
    [op |-> "none",
     resp |-> [ident |-> NoId, data |-> NoVal, index |-> NoId, id |-> NoId],
     index |-> NoId, frame |-> <<>>,
     back |-> [tag |-> "none",
               resp |-> [ident |-> NoId, data |-> NoVal, index |-> NoId, id |-> NoId]]]

\* ------------------------------------- a Concrete_Remote and its clones
\* #[derive(Clone)] struct Concrete_Remote { task: Arc<AtomicTask>,
\*   queue: Arc<RwLock<VecDeque<Call>>>, ids: Arc<RwLock<Vec<u64>>>,
\*   last_id: Arc<AtomicU64>, channels: Arc<RwLock<HashMap<u64, Channel>>> }
\* Every clone shares the fields. qlock: who holds the write lock of queue.
\* task: whether the AtomicTask holds a registered task. stream: the task
\* that polls the outbound stream. threads: where each thread is in the
\* method it invokes. owner, yielded: which thread was given which id, and
\* the Calls the stream has yielded.
Threads == 1..MaxThreads

ProxyNew ==
    [ids |-> <<>>, last_id |-> 0, queue |-> <<>>, channels |-> <<>>,
     qlock |-> "free", task |-> FALSE,
     stream |-> [pc |-> "poll", runnable |-> TRUE],
     threads |-> [t \in Threads |-> [pc |-> "idle", m |-> NoId, id |-> NoId]],
     owner |-> <<>>, yielded |-> <<>>]

\* ------------------------------------------------------------------ Init
Init ==
    /\ IDX = 0
    /\ CHANNELS = <<>>
    /\ forks = <<>>
    /\ getForks = <<>>
    /\ lastIn = [channel |-> NoId, data |-> NoVal, open |-> FALSE, outcome |-> "none"]
    /\ ksink = SinkConstruct
    /\ fed = <<>>
    /\ peerForks = <<>>
    /\ sinkWire = <<>>
    /\ host = [state |-> "running", errors |-> 0, rejected |-> <<>>]
    /\ hostTrace = <<>>
    /\ replies = <<>>
    /\ hostForks = <<>>
    /\ sinkLog = [peer |-> <<>>, host |-> <<>>]
    /\ codec = NoCodec
    /\ remote = RemoteNew
    /\ shim = ShimNew
    /\ callWire = <<>>
    /\ respWire = <<>>
    /\ protoLog = [issued |-> <<>>, yielded |-> <<>>, received |-> <<>>,
                   invoked |-> <<>>, emitted |-> <<>>, delivered |-> <<>>]
    /\ refl = [held |-> NoObject, trail |-> <<>>]
    /\ derive = NoDerive
    /\ serde = NoWire
    /\ proxy = ProxyNew

\* --------------------------------------------- unbounded mpsc (futures 0.1)
\* UnboundedSender::start_send: the item goes to the back of the queue;
\* it fails when the receiver is gone.
Enqueue(q, item) == Append(q, item)

\* UnboundedReceiver::poll: the front item; None once the queue is empty
\* and every sender is dropped; NotReady otherwise.
Dequeue(q, txAlive) ==
    IF q # <<>> THEN [tag |-> "Some", item |-> Head(q), rest |-> Tail(q)]
    ELSE IF ~txAlive THEN [tag |-> "None", item |-> NoVal, rest |-> q]
    ELSE [tag |-> "NotReady", item |-> NoVal, rest |-> q]

\* ------------------------------------------------ IdChannelFork::new_with
\* Two unbounded queues; value.deconstruct is spawned on one end and the
\* other end (the sender of I, the receiver of O) is returned.
NewFork(k, v, role) ==
    [kind |-> k, value |-> v, role |-> role, id |-> NoId, task |-> "spawned",
     up |-> <<>>, tried |-> <<>>, sentUp |-> <<>>, yielded |-> <<>>,
     down |-> <<>>, sentDown |-> <<>>, recvDown |-> <<>>,
     upRx |-> TRUE, downTx |-> TRUE, forked |-> <<>>,
     handle |-> [state |-> IF role = "pair" THEN "pending" ELSE "none",
                 val |-> [tag |-> "none", val |-> NoVal]]]

\* ------------------------------------------------- IdChannel::new_with
\* let first_channel = IDX.fetch_add(1, Ordering::SeqCst);
\* let (sender, receiver) = IdChannelFork::new_with(value);
\* (the counter is 64 bits wide; the bounds keep it far from wrapping). The
\* caller now holds first_channel and the new sub-channel's other end, and
\* the task is spawned; other threads may run before the next step.
NewWithFetchAdd(k, v, max) ==
    /\ Len(forks) < max
    /\ forks' = Append(forks, [NewFork(k, v, "starting") EXCEPT !.id = IDX])
    /\ IDX' = IDX + 1
    /\ UNCHANGED <<CHANNELS, getForks, lastIn, nonValueVars>>

\* CHANNELS.lock().unwrap().insert(first_channel, [..]); the IdChannel is
\* returned with receiver.map(..) as its out_channel, and sender is dropped.
NewWithInsert_NoEntry(f) ==
    /\ forks[f].role = "starting"
    /\ forks' = [forks EXCEPT ![f].role = "root", ![f].downTx = FALSE]
    /\ UNCHANGED <<IDX, CHANNELS, getForks, lastIn, nonValueVars>>

NewWithInsert(f) ==
    /\ forks[f].role = "starting"
    /\ CHANNELS' = [i \in DOMAIN CHANNELS \cup {forks[f].id} |->
                        IF i = forks[f].id THEN TypeIds(forks[f].kind) ELSE CHANNELS[i]]
    /\ forks' = [forks EXCEPT ![f].role = "root", ![f].downTx = FALSE]
    /\ UNCHANGED <<IDX, getForks, lastIn, nonValueVars>>

\* ------------------------------------- impl Sink / Stream for IdChannelFork
\* start_send: self.o.start_send(item).map_err(|_| ()); the frame is queued
\* unless the receiving half is gone. tried: every item start_send was
\* called with; sentUp: those it took.
ForkStartSend_Lifo(fk, item) ==
    IF fk.upRx
    THEN [fk EXCEPT !.up = <<item>> \o @, !.tried = Append(@, item),
                    !.sentUp = Append(@, item)]
    ELSE [fk EXCEPT !.tried = Append(@, item)]

ForkStartSend(fk, item) ==
    IF fk.upRx
    THEN [fk EXCEPT !.up = Enqueue(@, item), !.tried = Append(@, item),
                    !.sentUp = Append(@, item)]
    ELSE [fk EXCEPT !.tried = Append(@, item)]

\* poll: self.i.poll().map_err(|_| ())
ForkPoll(fk) == Dequeue(fk.down, fk.downTx)

\* -------------------------------------------------- impl Fork / Channel
\* fn fork<V: Value>(&self, value: V) -> ForkRef { ForkRef(0) }
fork(fk, v) == 0

\* fn get_fork(..) { Box::new(empty()) }: a future that is never ready.
get_fork(fk, ref) == "empty"

\* fn split_factory(&self) -> Self::ForkFactory { panic!() }
split_factory(fk) == "panic"

\* ----------------------------------------------------- Value::deconstruct
\* primitive_impl: Box::new(channel.send(self).then(|_| Ok(())))
PrimDeconstruct_Propagate(fk) ==
    [ForkStartSend(fk, fk.value.val) EXCEPT !.task = IF fk.upRx THEN "done" ELSE "failed"]

PrimDeconstruct(fk) ==
    [ForkStartSend(fk, fk.value.val) EXCEPT !.task = "done"]

\* impl Value for (): Box::new(ok(())); the channel is dropped unused.
UnitDeconstruct(fk) == [fk EXCEPT !.task = "done"]

\* Future<T, E>: once the wrapped future completes, split_factory() is
\* called, then fork(v) and the send of FResult::Ok / FResult::Err.
FutureDeconstruct(fk) ==
    IF split_factory(fk) = "panic"
    THEN [fk EXCEPT !.task = "panicked"]
    ELSE LET r == fork(fk, fk.value.val)
             forked == [fk EXCEPT !.forked = Append(@, r)]
         IN [ForkStartSend(forked, [tag |-> fk.value.tag, ref |-> r])
                EXCEPT !.task = "done"]

\* The spawned task of a primitive, of () or of a Future runs to its end.
TaskRun(f) ==
    /\ forks[f].task = "spawned"
    /\ forks[f].kind \in {"prim", "future"} \cup ZeroSized
    /\ forks' = [forks EXCEPT ![f] =
                    CASE forks[f].kind = "prim" -> PrimDeconstruct(forks[f])
                      [] forks[f].kind \in ZeroSized -> UnitDeconstruct(forks[f])
                      [] OTHER -> FutureDeconstruct(forks[f])]
    /\ UNCHANGED <<IDX, CHANNELS, getForks, lastIn, nonValueVars>>

\* The executor drops a spawned task that it never completes (shutdown):
\* its channel, with both halves, is dropped with it.
TaskDropped(f) ==
    /\ TaskAlive(f)
    /\ forks' = [forks EXCEPT ![f].task = "dropped"]
    /\ UNCHANGED <<IDX, CHANNELS, getForks, lastIn, nonValueVars>>

\* ---------------------------------------- a user-defined kind's task
\* channel.start_send(frame): the frames are numbered in sending order.
UserSend(f) ==
    /\ forks[f].kind = "user" /\ TaskAlive(f)
    /\ FramesSent < MaxFrames
    /\ forks' = [forks EXCEPT ![f] =
                    [ForkStartSend(forks[f], Len(forks[f].sentUp)) EXCEPT !.task = "running"]]
    /\ UNCHANGED <<IDX, CHANNELS, getForks, lastIn, nonValueVars>>

\* channel.poll(): the next inbound frame.
UserRecv(f) ==
    /\ forks[f].kind = "user" /\ TaskAlive(f)
    /\ LET r == ForkPoll(forks[f]) IN
        /\ r.tag = "Some"
        /\ forks' = [forks EXCEPT ![f].down = r.rest,
                                  ![f].recvDown = Append(@, r.item),
                                  ![f].task = "running"]
    /\ UNCHANGED <<IDX, CHANNELS, getForks, lastIn, nonValueVars>>

\* The task returns Ok(()).
UserFinish(f) ==
    /\ forks[f].kind = "user" /\ TaskAlive(f)
    /\ forks' = [forks EXCEPT ![f].task = "done"]
    /\ UNCHANGED <<IDX, CHANNELS, getForks, lastIn, nonValueVars>>

\* channel.fork(v): the reference it returns is recorded.
Fork(f, v) ==
    /\ forks[f].kind = "user" /\ TaskAlive(f)
    /\ ForkCalls < MaxForkCalls
    /\ forks' = [forks EXCEPT ![f].forked = Append(@, fork(forks[f], v)),
                              ![f].task = "running"]
    /\ UNCHANGED <<IDX, CHANNELS, getForks, lastIn, nonValueVars>>

\* channel.get_fork::<V>(ForkRef(r)): the future it returns.
GetFork(f, r) ==
    /\ forks[f].kind = "user" /\ TaskAlive(f)
    /\ Len(getForks) < MaxGetForks
    /\ getForks' = Append(getForks, [fork |-> f, ref |-> r,
                                     inner |-> get_fork(forks[f], r),
                                     state |-> "created"])
    /\ UNCHANGED <<IDX, CHANNELS, forks, lastIn, nonValueVars>>

\* Polling the future of get_fork: empty() is never ready.
PollGetFork(g) ==
    /\ getForks[g].state = "created"
    /\ getForks' = [getForks EXCEPT ![g].state =
                        IF getForks[g].inner = "empty" THEN "pending" ELSE "ready"]
    /\ UNCHANGED <<IDX, CHANNELS, forks, lastIn, nonValueVars>>

\* --------------------------------------------------- impl Stream for IdChannel
\* out_channel = receiver.map(move |v| ChannelItem(first_channel, Box::new(v)))
ChannelItem(id, data) == [channel |-> id, data |-> data]

IdChannelPoll(f) ==
    /\ forks[f].role = "root" /\ forks[f].upRx
    /\ LET r == Dequeue(forks[f].up, TaskAlive(f)) IN
        /\ r.tag = "Some"
        /\ forks' = [forks EXCEPT ![f].up = r.rest,
                                  ![f].yielded = Append(@, ChannelItem(forks[f].id, r.item))]
    /\ UNCHANGED <<IDX, CHANNELS, getForks, lastIn, nonValueVars>>

\* The IdChannel is dropped: the receiving half goes, with what it held.
IdChannelDrop(f) ==
    /\ forks[f].role = "root" /\ forks[f].upRx
    /\ forks' = [forks EXCEPT ![f].upRx = FALSE, ![f].up = <<>>]
    /\ UNCHANGED <<IDX, CHANNELS, getForks, lastIn, nonValueVars>>

\* ------------------------------------- inbound: Id::deserialize, then the sink
\* let ty = { *CHANNELS.lock().unwrap().get(&self.0).unwrap() };
IdDeserialize(id) ==
    IF id \in DOMAIN CHANNELS THEN [tag |-> "Ok", ty |-> CHANNELS[id][1]]
    ELSE [tag |-> "panic", ty |-> "none"]

\* impl Sink for IdChannel: start_send(item) -> Err(())
IdChannelStartSend(fk, item) == [result |-> "Err", fork |-> fk]

\* An inbound frame for fork id arrives at the IdChannel of root fork f: it
\* is deserialized with the seed Id(id) and handed to the sink.
Receive(f, id, data) ==
    /\ forks[f].role = "root"
    /\ LET d == IdDeserialize(id)
       IN IF d.tag = "panic"
          THEN /\ lastIn' = [channel |-> id, data |-> data, open |-> FALSE,
                           outcome |-> "panic"]
               /\ forks' = forks
          ELSE LET r == IdChannelStartSend(forks[f], ChannelItem(id, data)) IN
               /\ lastIn' = [channel |-> id, data |-> data, open |-> TRUE,
                              outcome |-> r.result]
               /\ forks' = [forks EXCEPT ![f] = r.fork]
    /\ UNCHANGED <<IDX, CHANNELS, getForks, nonValueVars>>

\* ------------------------------- construct on the other end of a sub-channel
\* IdChannelFork::new_with(value), with the returned sender and receiver used
\* as the channel that V::construct is given.
PairNew(k, v) ==
    /\ Len(forks) < MaxPairs
    /\ forks' = Append(forks, NewFork(k, v, "pair"))
    /\ UNCHANGED <<IDX, CHANNELS, getForks, lastIn, nonValueVars>>

\* primitive_impl::construct:
\*   channel.into_future().map_err(|_| err_msg("test")).map(|v| v.0.unwrap())
PrimConstruct_Default(fk, r) ==
    IF r.tag = "Some"
    THEN [state |-> "ready", val |-> [tag |-> "val", val |-> 0]]
    ELSE [state |-> "panicked", val |-> fk.handle.val]

PrimConstruct(fk, r) ==
    IF r.tag = "Some"
    THEN [state |-> "ready", val |-> [tag |-> "val", val |-> r.item]]
    ELSE [state |-> "panicked", val |-> fk.handle.val]

\* impl Value for (): construct is Box::new(ok(())), ready at its first
\* poll whatever the channel holds.
UnitConstruct(fk, r) == [state |-> "ready", val |-> [tag |-> "unit", val |-> 0]]

\* Future::construct: channel.into_future().then(|v| match v { Ok(v) =>
\*   ok(match v.0.unwrap() { Ok(r) => get_fork::<T>(r), Err(r) => get_fork::<E>(r) }) })
\* The handle is the Future that wraps what get_fork returned.
FutureConstruct(fk, r) ==
    IF r.tag = "Some"
    THEN IF get_fork(fk, r.item.ref) = "empty"
         THEN [state |-> "constructed", val |-> [tag |-> r.item.tag, val |-> NoVal]]
         ELSE [state |-> "ready", val |-> [tag |-> r.item.tag, val |-> r.item.ref]]
    ELSE [state |-> "panicked", val |-> fk.handle.val]

\* The construct future is polled; once it completes, the channel it was
\* given is dropped. A user-defined kind's consumer takes the frames one by
\* one until the stream ends.
ConstructPoll(f) ==
    /\ forks[f].role = "pair" /\ forks[f].handle.state = "pending"
    /\ LET fk == forks[f]
           r == Dequeue(fk.up, TaskAlive(f))
       IN /\ fk.kind \in ZeroSized \/ r.tag # "NotReady"
          /\ forks' = [forks EXCEPT ![f] =
                CASE fk.kind \in ZeroSized ->
                        [fk EXCEPT !.handle = UnitConstruct(fk, r), !.up = <<>>,
                                   !.upRx = FALSE, !.downTx = FALSE]
                  [] fk.kind = "prim" ->
                        [fk EXCEPT !.handle = PrimConstruct(fk, r), !.up = <<>>,
                                   !.yielded = IF r.tag = "Some"
                                               THEN Append(@, ChannelItem(NoId, r.item))
                                               ELSE @,
                                   !.upRx = FALSE, !.downTx = FALSE]
                  [] fk.kind = "future" ->
                        [fk EXCEPT !.handle = FutureConstruct(fk, r), !.up = <<>>,
                                   !.yielded = IF r.tag = "Some"
                                               THEN Append(@, ChannelItem(NoId, r.item))
                                               ELSE @,
                                   !.upRx = FALSE, !.downTx = FALSE]
                  [] OTHER ->
                        IF r.tag = "Some"
                        THEN [fk EXCEPT !.up = r.rest,
                                        !.yielded = Append(@, ChannelItem(NoId, r.item))]
                        ELSE [fk EXCEPT !.handle.state = "ended",
                                        !.upRx = FALSE, !.downTx = FALSE]]
    /\ UNCHANGED <<IDX, CHANNELS, getForks, lastIn, nonValueVars>>

\* A user-defined kind's consumer sends a frame to the task: the sender
\* returned by IdChannelFork::new_with.
PairSendDown(f) ==
    /\ forks[f].role = "pair" /\ forks[f].kind = "user" /\ forks[f].downTx
    /\ FramesSent < MaxFrames
    /\ TaskAlive(f)
    /\ forks' = [forks EXCEPT ![f].sentDown = Append(@, Len(@)),
                              ![f].down = Enqueue(@, Len(forks[f].sentDown))]
    /\ UNCHANGED <<IDX, CHANNELS, getForks, lastIn, nonValueVars>>

\* The handle (the construct future and its channel) is dropped.
HandleDrop(f) ==
    /\ forks[f].role = "pair" /\ forks[f].handle.state = "pending"
    /\ forks' = [forks EXCEPT ![f].handle.state = "dropped", ![f].up = <<>>,
                              ![f].upRx = FALSE, ![f].downTx = FALSE]
    /\ UNCHANGED <<IDX, CHANNELS, getForks, lastIn, nonValueVars>>

\* ------------------------------------------------ the Channel of a Sink
\* channel.fork(item): a fresh ForkHandle, behind which the item travels.
ChannelFork(table, item) == [table |-> Append(table, item), handle |-> Len(table) + 1]

\* channel.get_fork::<T>(handle): the item that was forked under the handle.
ChannelGetFork(table, handle) == table[handle]

\* channel.send(handle) and channel.next(): one FIFO queue each way.
ChannelSend(wire, handle) == Append(wire, handle)

ChannelNext(wire) == [handle |-> Head(wire), rest |-> Tail(wire)]

\* A call of the channel that has completed: fork returned the handle, or
\* send was given it.
Event(call, handle) == [call |-> call, handle |-> handle]

\* ---------------------------------------------------- impl ISink for KindSink
\* The async block of start_send, driven by one poll that passes n of its
\* await points:
\*   let mut channel = channel.lock().await;
\*   let handle = channel.fork(item).await.unwrap();
\*   channel.send(handle).await.unwrap_or_else(|_| panic!());
\* A task polled again after it completed panics, as does a failed send.
ItemPoll_SendFirst(t, n, table, wire, hostUp) ==
    IF t.stage = "complete"
    THEN [item |-> t, result |-> "panic", table |-> table, wire |-> wire,
          events |-> <<>>]
    ELSE IF t.kind = "ready"
    THEN [item |-> [t EXCEPT !.stage = "complete"], result |-> "Ready",
          table |-> table, wire |-> wire, events |-> <<>>]
    ELSE LET handle == IF t.stage = "start" THEN Len(table) + 1 ELSE t.handle
             passed == IF t.stage = "start" THEN n ELSE n + 1
             sent == IF t.stage = "start" THEN ChannelSend(wire, handle) ELSE wire
             sending == IF t.stage = "start" THEN <<Event("send", handle)>> ELSE <<>>
         IN IF passed < 2
            THEN [item |-> [t EXCEPT !.stage = "forked", !.handle = handle],
                  result |-> "Pending", table |-> table, wire |-> sent,
                  events |-> sending]
            ELSE [item |-> [t EXCEPT !.stage = "complete", !.handle = handle],
                  result |-> "Ready", table |-> ChannelFork(table, t.val).table,
                  wire |-> sent,
                  events |-> sending \o <<Event("fork", handle)>>]

ItemPoll(t, n, table, wire, hostUp) ==
    IF t.stage = "complete"
    THEN [item |-> t, result |-> "panic", table |-> table, wire |-> wire,
          events |-> <<>>]
    ELSE IF t.kind = "ready"
    THEN [item |-> [t EXCEPT !.stage = "complete"], result |-> "Ready",
          table |-> table, wire |-> wire, events |-> <<>>]
    ELSE LET forked == IF t.stage = "start" THEN ChannelFork(table, t.val)
                       ELSE [table |-> table, handle |-> t.handle]
             forking == IF t.stage = "start" THEN <<Event("fork", forked.handle)>>
                        ELSE <<>>
             passed == IF t.stage = "start" THEN n ELSE n + 1
         IN IF passed < 2
            THEN [item |-> [t EXCEPT !.stage = "forked", !.handle = forked.handle],
                  result |-> "Pending", table |-> forked.table, wire |-> wire,
                  events |-> forking]
            ELSE IF ~hostUp
            THEN [item |-> [t EXCEPT !.stage = "complete", !.handle = forked.handle],
                  result |-> "panic", table |-> forked.table, wire |-> wire,
                  events |-> forking]
            ELSE [item |-> [t EXCEPT !.stage = "complete", !.handle = forked.handle],
                  result |-> "Ready", table |-> forked.table,
                  wire |-> ChannelSend(wire, forked.handle),
                  events |-> forking \o <<Event("send", forked.handle)>>]

\* start_send: self.item = Box::pin(async move { .. }); Ok(())
KindSinkStartSend_Keep(sk, item) ==
    [sk EXCEPT !.last = [op |-> "start_send", result |-> "Ok"]]

KindSinkStartSend(sk, item) ==
    [sk EXCEPT !.item = [kind |-> "send", stage |-> "start", val |-> item, handle |-> 0],
               !.last = [op |-> "start_send", result |-> "Ok"]]

SinkOps == {"poll_ready", "poll_flush", "poll_close"}

\* poll_ready, poll_flush, poll_close: self.item.as_mut().poll(cx).map(Ok)
SinkPoll(op, n) ==
    /\ ksink.last.result # "panic" /\ ksink.last.op # "drop"
    /\ LET r == ItemPoll(ksink.item, n, peerForks, sinkWire, host.state = "running") IN
        /\ ksink' = [item |-> r.item, last |-> [op |-> op, result |-> r.result]]
        /\ peerForks' = r.table
        /\ sinkWire' = r.wire
        /\ sinkLog' = [sinkLog EXCEPT !.peer = @ \o r.events]
    /\ UNCHANGED <<nonSinkVars, fed, host, hostTrace, replies, hostForks>>

\* The peer feeds an item: start_send after poll_ready returned Ready.
StartSend(item) ==
    /\ ksink.last = [op |-> "poll_ready", result |-> "Ready"]
    /\ Len(fed) < MaxItems
    /\ ksink' = KindSinkStartSend(ksink, item)
    /\ fed' = Append(fed, item)
    /\ UNCHANGED <<nonSinkVars, peerForks, sinkWire, host, hostTrace, replies, hostForks, sinkLog>>

\* A peer that does not wait for poll_ready: start_send while the task of the
\* item before is still pending. start_send takes whatever it is given.
StartSendPending(item) ==
    /\ ksink.last.op # "drop" /\ ksink.last.result # "panic"
    /\ ksink.item.kind = "send" /\ ksink.item.stage # "complete"
    /\ Len(fed) < MaxItems
    /\ ksink' = KindSinkStartSend(ksink, item)
    /\ fed' = Append(fed, item)
    /\ UNCHANGED <<nonSinkVars, peerForks, sinkWire, host, hostTrace, replies, hostForks, sinkLog>>

\* The peer drops the KindSink, and with it its end of the channel.
SinkDrop ==
    /\ ksink.last.op # "drop"
    /\ ksink' = [ksink EXCEPT !.last = [op |-> "drop", result |-> "Ok"]]
    /\ UNCHANGED <<nonSinkVars, fed, peerForks, sinkWire, host, hostTrace, replies, hostForks, sinkLog>>

\* ------------------------------------------------------- Sink::deconstruct
\* while let Some(handle) = channel.next().await {
\*     if let Err(error) = self.send(channel.get_fork::<T>(handle).await.unwrap()).await {
\*         let handle = channel.fork::<E>(error).await.unwrap();
\*         channel.send(handle).await?;
\*     }
\* }
\* One turn of the loop. channel.next() yields the next handle, or None
\* once the peer's end is gone (peerUp is false) and nothing is in flight:
\* the task ends with Ok. The underlying sink is given the item, and its
\* send succeeds (ok) or fails with an error that names the item, which is
\* forked on the host's channel and its handle sent back; the send of the
\* handle fails when the peer's end is gone, and the task ends with that
\* error. rejected: the errors the underlying sink has returned.
SinkDeconstruct_Stop(h, trace, table, wire, errors, out, ok, peerUp) ==
    IF wire = <<>>
    THEN [host |-> [h EXCEPT !.state = "ended"], trace |-> trace, wire |-> wire,
          errors |-> errors, out |-> out, events |-> <<>>]
    ELSE LET nx == ChannelNext(wire)
             item == ChannelGetFork(table, nx.handle)
         IN IF ok
            THEN [host |-> h, trace |-> Append(trace, item), wire |-> nx.rest,
                  errors |-> errors, out |-> out, events |-> <<>>]
            ELSE [host |-> [h EXCEPT !.errors = @ + 1, !.rejected = Append(@, item),
                                     !.state = "failed"],
                  trace |-> Append(trace, item), wire |-> nx.rest,
                  errors |-> errors, out |-> out, events |-> <<>>]

SinkDeconstruct(h, trace, table, wire, errors, out, ok, peerUp) ==
    IF wire = <<>>
    THEN [host |-> [h EXCEPT !.state = "ended"], trace |-> trace, wire |-> wire,
          errors |-> errors, out |-> out, events |-> <<>>]
    ELSE LET nx == ChannelNext(wire)
             item == ChannelGetFork(table, nx.handle)
             forked == ChannelFork(errors, item)
         IN IF ok
            THEN [host |-> h, trace |-> Append(trace, item), wire |-> nx.rest,
                  errors |-> errors, out |-> out, events |-> <<>>]
            ELSE IF peerUp
            THEN [host |-> [h EXCEPT !.errors = @ + 1, !.rejected = Append(@, item)],
                  trace |-> Append(trace, item), wire |-> nx.rest,
                  errors |-> forked.table, out |-> ChannelSend(out, forked.handle),
                  events |-> <<Event("fork", forked.handle), Event("send", forked.handle)>>]
            ELSE [host |-> [h EXCEPT !.errors = @ + 1, !.rejected = Append(@, item),
                                     !.state = "failed"],
                  trace |-> Append(trace, item), wire |-> nx.rest,
                  errors |-> forked.table, out |-> out,
                  events |-> <<Event("fork", forked.handle), Event("send_err", forked.handle)>>]

HostStep(ok) ==
    /\ host.state = "running"
    /\ sinkWire # <<>> \/ ksink.last.op = "drop"
    /\ ok \/ host.errors < MaxSinkErrors
    /\ LET r == SinkDeconstruct(host, hostTrace, peerForks, sinkWire, hostForks,
                                replies, ok, ksink.last.op # "drop") IN
        /\ host' = r.host
        /\ hostTrace' = r.trace
        /\ sinkWire' = r.wire
        /\ hostForks' = r.errors
        /\ replies' = r.out
        /\ sinkLog' = [sinkLog EXCEPT !.host = @ \o r.events]
    /\ UNCHANGED <<nonSinkVars, ksink, fed, peerForks>>

\* ----------------------------------------------- the wire form of ChannelItem
\* A payload in memory is a value of the fork's ConstructItem type; on the
\* wire it is what the format writes for it: a number for a primitive or a
\* user item, a tagged variant for FResult::Ok(ForkRef) / FResult::Err(ForkRef).
Payload(ty, tag, val) == [ty |-> ty, tag |-> tag, val |-> val]

PayloadsOf(k) ==
    CASE k = "prim" -> {Payload("prim", "val", v) : v \in Values}
      [] k = "future" -> {Payload("FResult", t, r) : t \in {"Ok", "Err"}, r \in 0..MaxId}
      [] OTHER -> {Payload("UserC", "val", v) : v \in Values}

Num(n) == [shape |-> "num", tag |-> "none", val |-> n]

\* self.1.as_ref() serialized through erased_serde.
ErasedSerialize(data) ==
    IF data.ty = "FResult" THEN [shape |-> "variant", tag |-> data.tag, val |-> data.val]
    ELSE Num(data.val)

\* impl Serialize for ChannelItem: a map with the keys "channel" and "data"
\* for a human-readable serializer, a sequence of two elements otherwise.
ChannelItemSerialize(item, hr) ==
    IF hr
    THEN [shape |-> "map",
          body |-> << <<"channel", Num(item.channel)>>,
                      <<"data", ErasedSerialize(item.data)>> >>]
    ELSE [shape |-> "seq",
          body |-> << <<"0", Num(item.channel)>>,
                      <<"1", ErasedSerialize(item.data)>> >>]

\* The types with an inventory Item: those whose Value impl carries
\* #[value] (the primitives and FResult); a user-defined kind's item type
\* that was never submitted has none.
Registry == {"prim", "FResult"}

\* (item.func)(deserializer): the registered deserializer of type ty reads
\* the wire value, and fails on a value of another shape.
ItemFunc(ty, w) ==
    CASE ty = "FResult" /\ w.shape = "variant" /\ w.tag \in {"Ok", "Err"} ->
            [tag |-> "Ok", data |-> Payload("FResult", w.tag, w.val)]
      [] ty # "FResult" /\ w.shape = "num" ->
            [tag |-> "Ok", data |-> Payload(ty, "val", w.val)]
      [] OTHER -> [tag |-> "Err", data |-> NoItem.data]

\* impl DeserializeSeed for Id: CHANNELS...get(&self.0).unwrap(), then
\* inventory::iter.find(|item| item.ty == ty[0]).unwrap(), then
\* (func)(deserializer).map_err(|_| panic!()).
IdDeserializeSeed(id, w) ==
    LET ty == IdDeserialize(id) IN
    IF ty.tag = "panic" THEN [tag |-> "panic", data |-> NoItem.data, error |-> "unwrap: no fork"]
    ELSE IF ty.ty \notin Registry
    THEN [tag |-> "panic", data |-> NoItem.data, error |-> "unwrap: no item"]
    ELSE LET r == ItemFunc(ty.ty, w) IN
         IF r.tag = "Err" THEN [tag |-> "panic", data |-> NoItem.data, error |-> "panic"]
         ELSE [tag |-> "Ok", data |-> r.data, error |-> "none"]

CodecResult(tag, item, error) == [tag |-> tag, item |-> item, error |-> error]

\* ItemVisitor::visit_map, from entry i on, with the channel and the data
\* read so far (NoId, NoItem.data: None).
RECURSIVE visit_map(_, _, _, _)
visit_map(entries, i, channel, data) ==
    IF i > Len(entries)
    THEN IF channel = NoId THEN CodecResult("Err", NoItem, "missing_field channel")
         ELSE IF data = NoItem.data THEN CodecResult("Err", NoItem, "missing_field data")
         ELSE CodecResult("Ok", ChannelItem(channel, data), "none")
    ELSE LET key == entries[i][1]
             value == entries[i][2]
         IN CASE key = "channel" ->
                    IF channel # NoId
                    THEN CodecResult("Err", NoItem, "duplicate_field channel")
                    ELSE IF value.shape # "num"
                    THEN CodecResult("Err", NoItem, "invalid_type")
                    ELSE visit_map(entries, i + 1, value.val, data)
              [] key = "data" ->
                    IF data # NoItem.data
                    THEN CodecResult("Err", NoItem, "duplicate_field data")
                    ELSE IF channel = NoId
                    THEN CodecResult("panic", NoItem, "unwrap: no channel")
                    ELSE LET d == IdDeserializeSeed(channel, value) IN
                         IF d.tag = "panic" THEN CodecResult("panic", NoItem, d.error)
                         ELSE visit_map(entries, i + 1, channel, d.data)
              [] OTHER -> CodecResult("panic", NoItem, "panic: key")

\* ItemVisitor has no visit_seq (it is commented out): serde's default
\* rejects the sequence with invalid_type.
visit_seq(elements) == CodecResult("Err", NoItem, "invalid_type")

\* impl Deserialize for ChannelItem: deserialize_map for a human-readable
\* deserializer and deserialize_seq otherwise, both with ItemVisitor, and
\* .map_err(|e| { println!(..); panic!(); }) on the outcome.
ChannelItemDeserialize(w, hr) ==
    LET r == IF w.shape = "map" THEN visit_map(w.body, 1, NoId, NoItem.data)
             ELSE visit_seq(w.body)
    IN IF r.tag = "Err" THEN CodecResult("panic", NoItem, r.error) ELSE r

\* A ChannelItem of a root fork is serialized and the result deserialized.
RoundTrip(f, data, hr) ==
    /\ forks[f].role = "root" /\ forks[f].id \in DOMAIN CHANNELS
    /\ LET item == ChannelItem(forks[f].id, data)
           w == ChannelItemSerialize(item, hr)
       IN codec' = [op |-> "roundtrip", hr |-> hr, item |-> item, input |-> w.body,
                    result |-> ChannelItemDeserialize(w, hr)]
    /\ UNCHANGED nonCodecVars

\* A map that the peer wrote arrives and is deserialized as a ChannelItem.
DecodeMap(entries) ==
    /\ codec' = [op |-> "decode", hr |-> TRUE, item |-> NoItem, input |-> entries,
                 result |-> ChannelItemDeserialize([shape |-> "map", body |-> entries], TRUE)]
    /\ UNCHANGED nonCodecVars

\* ------------------------------------------------------------- AsBytes<F>
\* A string is a sequence of code points; str::as_bytes gives its UTF-8
\* encoding (one byte below 128, two bytes below 2048).
RECURSIVE AsBytes(_)
AsBytes(str) ==
    IF str = <<>> THEN <<>>
    ELSE LET c == Head(str) IN
         (IF c < 128 THEN <<c>> ELSE <<192 + (c \div 64), 128 + (c % 64)>>)
         \o AsBytes(Tail(str))

\* String::from_utf8: the string that the bytes encode, or an error.
RECURSIVE from_utf8(_)
from_utf8(bytes) ==
    IF bytes = <<>> THEN [tag |-> "Ok", str |-> <<>>]
    ELSE LET b == Head(bytes) IN
         IF b < 128
         THEN LET r == from_utf8(Tail(bytes)) IN
              IF r.tag = "Ok" THEN [tag |-> "Ok", str |-> <<b>> \o r.str] ELSE r
         ELSE IF b >= 194 /\ b < 224 /\ Len(bytes) >= 2
                 /\ bytes[2] >= 128 /\ bytes[2] < 192
         THEN LET r == from_utf8(Tail(Tail(bytes))) IN
              IF r.tag = "Ok"
              THEN [tag |-> "Ok", str |-> <<(b - 192) * 64 + (bytes[2] - 128)>> \o r.str]
              ELSE r
         ELSE [tag |-> "Err", str |-> <<>>]

\* AsBytes::deserialize: F::deserialize(String::from_utf8(item).unwrap(), context)
AsBytesDeserialize(bytes) ==
    LET r == from_utf8(bytes) IN
    IF r.tag = "Err" THEN CodecResult("panic", NoItem, "unwrap: utf8")
    ELSE CodecResult("Ok", NoItem, "none")

\* Bytes arrive from the transport and are given to AsBytes::deserialize.
DecodeBytes(bytes) ==
    /\ codec' = [op |-> "bytes", hr |-> TRUE, item |-> NoItem, input |-> bytes,
                 result |-> AsBytesDeserialize(bytes)]
    /\ UNCHANGED nonCodecVars

\* ------------------------------------------------ Call and Response
\* Call_Inner::m(_0, .., _{k-1}, _k): the arguments, then the protocol id.
Call(m, args, id) == [ident |-> m, args |-> args, id |-> id]

NoCall == Call(NoId, <<>>, NoId)

\* Response::m(data, index, id): the fields as handle_response binds them
\* and as the shim fills them: Response::m(i, #index, #id).
Response(m, data, index, id) == [ident |-> m, data |-> data, index |-> index, id |-> id]

\* impl Serialize for Call: seq.serialize_element(&#index), then _0 ..= _k.
CallSerialize(c) == <<c.ident>> \o c.args \o <<c.id>>

\* CallVisitor::visit_seq: the index, then for the method's arm one
\* next_element per argument and one for the protocol id, each missing one
\* an invalid_length error; an index that is no method's is followed by a
\* Response. Elements left in the sequence are not read: a format that
\* insists on the end of the sequence (strict) reports them as an error.
CallDeserialize(frame, strict) ==
    IF frame = <<>> THEN [tag |-> "Err", call |-> NoCall, error |-> "invalid_length"]
    ELSE LET index == frame[1] IN
         IF index \notin Methods
         THEN [tag |-> "Err", call |-> NoCall, error |-> "invalid_type"]
         ELSE LET k == ArgCounts[index + 1] IN
              IF Len(frame) < k + 2
              THEN [tag |-> "Err", call |-> NoCall, error |-> "invalid_length"]
              ELSE IF Len(frame) > k + 2 /\ strict
              THEN [tag |-> "Err", call |-> NoCall, error |-> "trailing"]
              ELSE [tag |-> "Ok", error |-> "none",
                    call |-> Call(index, SubSeq(frame, 2, k + 1), frame[k + 2])]

\* impl Serialize for Response: Response::m(data, idx, m) =>
\*   serialize_element(m); serialize_element(idx); serialize_element(data)
ResponseSerialize(r) == <<r.id, r.index, r.data>>

\* ResponseVisitor::visit_seq: let index: u64 = next_element; match index {
\*   #index => Ok(Response::m(next_element, next_element, index)), _ => Err }
ResponseDeserialize(w) ==
    IF w = <<>> \/ w[1] \notin Methods \/ Len(w) < 3
    THEN [tag |-> "Err", resp |-> Response(NoId, NoVal, NoId, NoId)]
    ELSE [tag |-> "Ok", resp |-> Response(w[1], w[2], w[3], w[1])]

\* Call_Inner::Response_Variant(response), serialized as
\*   serialize_seq(Some(4)); serialize_element(&#m_len); serialize_element(response)
\* with m_len = methods.len(): the index, then the Response as one element.
CallInlinedSerialize(r) == [index |-> NumMethods, response |-> ResponseSerialize(r)]

\* CallVisitor::visit_seq, the arm `_` of match index: an index that is no
\* method's is followed by one element, which is read as a Response
\*   let d: Response = seq.next_element()?.ok_or_else(..)?;
\*   Call_Inner::Response_Variant(d)
\* A method's arm reads the arguments of the method instead, and a Response
\* is none of them.
CallInlinedDeserialize(f) ==
    IF f.index \in Methods
    THEN [tag |-> "Err", resp |-> Response(NoId, NoVal, NoId, NoId)]
    ELSE ResponseDeserialize(f.response)

\* A Response is serialized and what was written is deserialized.
ResponseRoundTrip(r) ==
    /\ serde' = [op |-> "response", resp |-> r, index |-> NoId,
                frame |-> ResponseSerialize(r),
                back |-> ResponseDeserialize(ResponseSerialize(r))]
    /\ UNCHANGED nonSerdeVars

\* The same for a Call that carries a Response inline.
InlinedRoundTrip(r) ==
    /\ LET f == CallInlinedSerialize(r) IN
        serde' = [op |-> "inlined", resp |-> r, index |-> f.index,
                 frame |-> f.response, back |-> CallInlinedDeserialize(f)]
    /\ UNCHANGED nonSerdeVars

\* A sequence from the transport is deserialized as a Call: its first
\* element, and the element after it.
InlinedDecode(index, w) ==
    /\ serde' = [op |-> "decode", resp |-> Response(NoId, NoVal, NoId, NoId),
                index |-> index, frame |-> w,
                back |-> CallInlinedDeserialize([index |-> index, response |-> w])]
    /\ UNCHANGED nonSerdeVars

\* --------------------------------------------------- Concrete_Remote
\* fn next_id(&self): ids.pop(), or else last_id.fetch_add(1, SeqCst)
next_id_Load(r) == [id |-> r.last_id, remote |-> r]

next_id(r) ==
    IF r.ids # <<>>
    THEN [id |-> r.ids[Len(r.ids)],
          remote |-> [r EXCEPT !.ids = SubSeq(@, 1, Len(@) - 1)]]
    ELSE [id |-> r.last_id, remote |-> [r EXCEPT !.last_id = @ + 1]]

\* A method of the proxy (generate_remote_impl):
\*   let _proto_id = self.next_id();
\*   self.channels.write().unwrap().insert(_proto_id, Channel::m(Box::new(ct1)));
\*   self.queue.write().unwrap().push_back(Call { call: Call_Inner::m(args, _proto_id) });
RemoteMethod_Front(r, m, args) ==
    LET n == next_id(r) IN
    [n.remote EXCEPT
        !.channels = [i \in DOMAIN @ \cup {n.id} |->
                        IF i = n.id THEN [method |-> m, recv |-> <<>>] ELSE @[i]],
        !.queue = <<Call(m, args, n.id)>> \o @]

RemoteMethod(r, m, args) ==
    LET n == next_id(r) IN
    [n.remote EXCEPT
        !.channels = [i \in DOMAIN @ \cup {n.id} |->
                        IF i = n.id THEN [method |-> m, recv |-> <<>>] ELSE @[i]],
        !.queue = Append(@, Call(m, args, n.id))]

\* impl Stream for Concrete_Remote: self.queue.write().unwrap().pop_front()
RemoteStreamPoll(r) ==
    IF r.queue # <<>>
    THEN [tag |-> "Some", item |-> Head(r.queue), remote |-> [r EXCEPT !.queue = Tail(@)]]
    ELSE [tag |-> "NotReady", item |-> NoCall, remote |-> r]

\* impl Sink for Concrete_Remote, start_send (generate_handle_response):
\*   Response::m(data, index, id) =>
\*     if let Some(Channel::m(channel)) = channels.get_mut(&id) { channel.start_send(data) }
handle_response(r, item) ==
    IF item.id \in DOMAIN r.channels /\ r.channels[item.id].method = item.ident
    THEN [remote |-> [r EXCEPT !.channels[item.id].recv = Append(@, item.data)],
          to |-> item.id]
    ELSE [remote |-> r, to |-> NoId]

\* ----------------------------------------------------- Protocol_Shim
\* The implementation that the shim holds: next() returns the count and
\* steps it, add(x) adds x and returns the sum.
InnerCall(state, m, args) ==
    IF m = 0 THEN [state |-> state + 1, result |-> state]
    ELSE [state |-> state + args[1], result |-> state + args[1]]

\* The items that deconstruct of a method's return value puts on its
\* Context: the value itself.
ContextItems(result) == <<result>>

\* generate_shim_forward: fn m(&mut self, args) { self.inner.m(args) }
ShimForward(sh, m, args) == InnerCall(sh.inner, m, args)

\* The stream that start_send merges in for one Call: the items on the
\* local end of the Context (the k-th is base + k - 1; put of them were put
\* so far), and what the closure of map holds: the method, #index and id.
MappedStream(call, result) ==
    [ident |-> call.ident, index |-> call.ident, id |-> call.id,
     base |-> result, items |-> ContextItems(result),
     put |-> Len(ContextItems(result))]

\* impl Sink for Protocol_Shim, start_send (generate_blanket):
\*   Call_Inner::m(args, id) => {
\*     self.m(args).deconstruct(context);
\*     self.inner_stream = Box::new(stream.map(move |i| Response::m(i, #index, id))
\*                                        .select(i_stream)); }
\* inner_stream: the streams that the nested Selects merge, oldest first.
ShimStartSend_Twice(sh, call) ==
    LET r == ShimForward(sh, call.ident, call.args)
        r2 == InnerCall(r.state, call.ident, call.args)
    IN [shim |-> [sh EXCEPT !.inner = r2.state,
                            !.inner_stream = Append(@, MappedStream(call, r2.result))],
        result |-> r2.result]

ShimStartSend_Replace(sh, call) ==
    LET r == ShimForward(sh, call.ident, call.args)
    IN [shim |-> [sh EXCEPT !.inner = r.state,
                            !.inner_stream = <<MappedStream(call, r.result)>>],
        result |-> r.result]

ShimStartSend(sh, call) ==
    LET r == ShimForward(sh, call.ident, call.args)
    IN [shim |-> [sh EXCEPT !.inner = r.state,
                            !.inner_stream = Append(@, MappedStream(call, r.result))],
        result |-> r.result]

Remove(q, i) == SubSeq(q, 1, i - 1) \o SubSeq(q, i + 1, Len(q))

\* ------------------------------------------------------------ the actions
\* The user invokes method m of the proxy.
Invoke(m, args) ==
    /\ Len(protoLog.issued) < MaxCalls
    /\ remote' = RemoteMethod(remote, m, args)
    /\ protoLog' = [protoLog EXCEPT !.issued = Append(@, Call(m, args, next_id(remote).id))]
    /\ UNCHANGED <<nonProtoVars, shim, callWire, respWire>>

\* The proxy's stream is polled; the Call it yields is serialized and sent.
RemotePoll ==
    /\ LET p == RemoteStreamPoll(remote) IN
        /\ p.tag = "Some"
        /\ remote' = p.remote
        /\ callWire' = Append(callWire, CallSerialize(p.item))
        /\ protoLog' = [protoLog EXCEPT !.yielded = Append(@, p.item)]
    /\ UNCHANGED <<nonProtoVars, shim, respWire>>

\* A frame that the proxy did not write arrives at the host.
Crafted(frame) ==
    /\ Len(callWire) + Len(protoLog.received) < MaxCrafted
    /\ callWire' = Append(callWire, frame)
    /\ UNCHANGED <<nonProtoVars, remote, shim, respWire, protoLog>>

\* The next frame is deserialized as a Call and given to the shim's sink.
ShimReceive(strict) ==
    /\ callWire # <<>>
    /\ callWire' = Tail(callWire)
    /\ LET d == CallDeserialize(Head(callWire), strict) IN
        IF d.tag = "Ok"
        THEN LET b == ShimStartSend(shim, d.call) IN
             /\ shim' = b.shim
             /\ protoLog' = [protoLog EXCEPT
                    !.received = Append(@, [frame |-> Head(callWire), tag |-> "Ok",
                                            error |-> "none", call |-> d.call]),
                    !.invoked = Append(@, [call |-> d.call, result |-> b.result])]
        ELSE /\ shim' = shim
             /\ protoLog' = [protoLog EXCEPT
                    !.received = Append(@, [frame |-> Head(callWire), tag |-> "Err",
                                            error |-> d.error, call |-> NoCall])]
    /\ UNCHANGED <<nonProtoVars, remote, respWire>>

\* The deconstruct of a call's return value puts a further item on its
\* Context.
ContextPut(i) ==
    /\ i \in 1..Len(shim.inner_stream)
    /\ shim.inner_stream[i].put < MaxRetItems
    /\ shim' = [shim EXCEPT
            !.inner_stream[i].items = Append(@, shim.inner_stream[i].base + shim.inner_stream[i].put),
            !.inner_stream[i].put = @ + 1]
    /\ UNCHANGED <<nonProtoVars, remote, callWire, respWire, protoLog>>

\* impl Stream for Protocol_Shim: the merged stream yields the next item of
\* one of the streams that hold one, mapped to a Response, which is
\* serialized and sent.
ShimPoll(i) ==
    /\ i \in 1..Len(shim.inner_stream)
    /\ shim.inner_stream[i].items # <<>>
    /\ LET st == shim.inner_stream[i]
           resp == Response(st.ident, Head(st.items), st.index, st.id)
       IN /\ shim' = [shim EXCEPT !.inner_stream[i].items = Tail(@)]
          /\ respWire' = Append(respWire, [resp |-> resp, wire |-> ResponseSerialize(resp)])
          /\ protoLog' = [protoLog EXCEPT !.emitted = Append(@, [resp |-> resp, stream |-> i])]
    /\ UNCHANGED <<nonProtoVars, remote, callWire>>

\* A Response arrives, in any order, is deserialized and given to the
\* proxy's sink.
RemoteReceive(i) ==
    /\ i \in 1..Len(respWire)
    /\ respWire' = Remove(respWire, i)
    /\ LET sent == respWire[i].resp
           d == ResponseDeserialize(respWire[i].wire)
       IN IF d.tag = "Ok"
          THEN LET h == handle_response(remote, d.resp) IN
               /\ remote' = h.remote
               /\ protoLog' = [protoLog EXCEPT !.delivered =
                      Append(@, [sent |-> sent, tag |-> "Ok", to |-> h.to,
                                 data |-> d.resp.data])]
          ELSE /\ remote' = remote
               /\ protoLog' = [protoLog EXCEPT !.delivered =
                      Append(@, [sent |-> sent, tag |-> "Err", to |-> NoId,
                                 data |-> NoVal])]
    /\ UNCHANGED <<nonProtoVars, shim, callWire>>

\* ------------------------------------- the proxy's clones on threads
\* One method of the proxy, statement by statement, on thread t. Each of
\* ids, queue and channels has a lock of its own, taken and released within
\* one statement; last_id and task are atomics.
\*
\*   let _proto_id = self.next_id();
\* next_id holds the write lock of ids from its first line to its last.
ProxyNextId(t, m) ==
    /\ proxy.threads[t].pc = "idle"
    /\ Len(proxy.owner) < MaxInvocations
    /\ LET n == next_id(proxy) IN
        proxy' = [n.remote EXCEPT
                    !.threads[t] = [pc |-> "insert", m |-> m, id |-> n.id],
                    !.owner = Append(@, [id |-> n.id, thread |-> t])]
    /\ UNCHANGED nonProxyVars

\*   self.channels.write().unwrap().insert(_proto_id, Channel::m(Box::new(ct1)));
ChannelsInsert_Skip(p, t) == p

ChannelsInsert(p, t) ==
    LET id == p.threads[t].id IN
    [p EXCEPT !.channels = [i \in DOMAIN @ \cup {id} |->
                              IF i = id THEN [method |-> p.threads[t].m] ELSE @[i]]]

ProxyInsert(t) ==
    /\ proxy.threads[t].pc = "insert"
    /\ proxy' = [ChannelsInsert(proxy, t) EXCEPT !.threads[t].pc = "push"]
    /\ UNCHANGED nonProxyVars

\*   self.queue.write().unwrap().push_back(Call { call: Call_Inner::m(args, _proto_id) });
\* The write lock of queue has to be free.
QueuePush(p, t) ==
    LET th == p.threads[t] IN
    [p EXCEPT !.queue = Append(@, Call(th.m, [i \in 1..ArgCounts[th.m + 1] |-> 0], th.id))]

ProxyPush(t) ==
    /\ proxy.threads[t].pc = "push"
    /\ proxy.qlock = "free"
    /\ proxy' = [QueuePush(proxy, t) EXCEPT !.threads[t].pc = "notify"]
    /\ UNCHANGED nonProxyVars

\*   self.task.notify();
\* AtomicTask::notify takes the registered task, if there is one, and
\* notifies it: the executor will poll the stream's task again.
TaskNotify(p) ==
    IF p.task THEN [p EXCEPT !.task = FALSE, !.stream.runnable = TRUE] ELSE p

\* After it the method returns construct(ct).
ProxyNotify(t) ==
    /\ proxy.threads[t].pc = "notify"
    /\ proxy' = [TaskNotify(proxy) EXCEPT !.threads[t] = [pc |-> "idle", m |-> NoId, id |-> NoId]]
    /\ UNCHANGED nonProxyVars

\* impl Stream for Concrete_Remote, fn poll:
\*   match self.queue.write().unwrap().pop_front() {
\*       Some(item) => Ok(Async::Ready(Some(item))),
\*       None => { self.task.register(); Ok(Async::NotReady) } }
\* The write guard is a temporary of the match's scrutinee: it is dropped at
\* the end of the match, so register runs with the lock of queue held.
StreamPollEmpty_Unlocked(p) == [p EXCEPT !.stream.pc = "register"]

StreamPollEmpty(p) == [p EXCEPT !.qlock = "stream", !.stream.pc = "register"]

\* The executor polls the stream's task when it is new or was notified; a
\* task that was given an item polls again.
ProxyPoll ==
    /\ proxy.stream.pc = "poll" /\ proxy.stream.runnable
    /\ proxy.qlock = "free"
    /\ LET r == RemoteStreamPoll(proxy) IN
        proxy' = IF r.tag = "Some"
                 THEN [r.remote EXCEPT !.yielded = Append(@, r.item)]
                 ELSE StreamPollEmpty(proxy)
    /\ UNCHANGED nonProxyVars

\* AtomicTask::register stores the current task; poll returns NotReady and
\* the guard is dropped.
ProxyRegister ==
    /\ proxy.stream.pc = "register"
    /\ proxy' = [proxy EXCEPT !.task = TRUE, !.qlock = "free",
                              !.stream = [pc |-> "poll", runnable |-> FALSE]]
    /\ UNCHANGED nonProxyVars

\* --------------------------------------------------------------- Cast
CastError(target) == [tag |-> "Err", target |-> target, obj |-> NoObject]

\* Trait::erase: the Box<dyn Erased> over the object.
erase(obj) == obj

\* Erased::cast(ty): on success an owning handle (a Box<dyn Any + Send>
\* holding a Box<dyn T>) for the requested interface; it succeeds iff ty is
\* the object's own type id.
cast(erased, ty) ==
    IF ty = erased.this THEN [tag |-> "Ok", target |-> ty, obj |-> Object(ty, erased.id)]
    ELSE CastError(ty)

\* Trait::upcast_erased(ty): for the type id of a supertrait, the erasure of
\* the Box<dyn SomeTrait> of that supertrait over the same object.
upcast_erased(obj, ty) ==
    IF ty \in supertraits(obj.this) THEN [tag |-> "Ok", target |-> ty, obj |-> Object(ty, obj.id)]
    ELSE CastError(ty)

\* Box::<dyn Any + Send>::downcast::<Box<S>>(erased)
\*     .map_err(|_| panic!("could not downcast after successful reinterpretation"))
AnyDowncast(any, S) ==
    IF any.obj.this = S THEN any ELSE [tag |-> "panic", target |-> S, obj |-> NoObject]

\* impl Cast<S> for Box<dyn Erased>: downcast is self.cast(TypeId::of::<S>())
\* and, on success, the downcast of the handle to Box<S>.
ErasedDowncast(erased, S) ==
    LET c == cast(erased, S) IN
    IF c.tag = "Ok" THEN AnyDowncast(c, S) ELSE c

\* impl Cast<S> for Box<T>: downcast is self.erase().cast(TypeId::of::<S>())
\* and, on success, the downcast of the handle to Box<S>.
CastDowncast_Root(obj, S) ==
    LET c == cast(erase(obj), "SomeTrait") IN
    IF c.tag = "Ok" THEN AnyDowncast(c, S) ELSE c

CastDowncast(obj, S) ==
    LET c == cast(erase(obj), S) IN
    IF c.tag = "Ok" THEN AnyDowncast(c, S) ELSE c

\* impl Cast<S> for Box<T>: upcast is
\*   Trait::<T>::upcast_erased(self, TypeId::of::<S>()).map(|erased|
\*       erased.downcast().expect("could not downcast after successful upcast"))
CastUpcast_ViaCast(obj, S) ==
    LET u == cast(erase(obj), S) IN
    IF u.tag # "Ok" THEN u
    ELSE LET d == ErasedDowncast(u.obj, S) IN
         IF d.tag = "Ok" THEN d ELSE [tag |-> "panic", target |-> S, obj |-> NoObject]

CastUpcast(obj, S) ==
    LET u == upcast_erased(obj, S) IN
    IF u.tag # "Ok" THEN u
    ELSE LET d == ErasedDowncast(u.obj, S) IN
         IF d.tag = "Ok" THEN d ELSE [tag |-> "panic", target |-> S, obj |-> NoObject]

\* The closure Cast::upcast maps over what upcast_erased returned:
\*   .map(|erased| erased.downcast().expect("could not downcast after successful upcast"))
\* for any result u that the signature of upcast_erased allows.
CastUpcastWith(u, S) ==
    IF u.tag # "Ok" THEN u
    ELSE LET d == ErasedDowncast(u.obj, S) IN
         IF d.tag = "Ok" THEN d ELSE [tag |-> "panic", target |-> S, obj |-> NoObject]

\* The program boxes an object of a reflected trait.
NewObject(ty, id) ==
    /\ refl.held = NoObject /\ refl.trail = <<>>
    /\ refl' = [refl EXCEPT !.held = Object(ty, id)]
    /\ UNCHANGED nonReflVars

\* The held object is cast; the cast consumes it, and what it yields, if
\* anything, is held in its place.
Downcast(S) ==
    /\ refl.held # NoObject /\ Len(refl.trail) < MaxCasts
    /\ LET r == CastDowncast(refl.held, S) IN
        refl' = [held |-> r.obj,
                 trail |-> Append(refl.trail, [op |-> "downcast", from |-> refl.held,
                                               target |-> S, result |-> r])]
    /\ UNCHANGED nonReflVars

Upcast(S) ==
    /\ refl.held # NoObject /\ Len(refl.trail) < MaxCasts
    /\ LET r == CastUpcast(refl.held, S) IN
        refl' = [held |-> r.obj,
                 trail |-> Append(refl.trail, [op |-> "upcast", from |-> refl.held,
                                               target |-> S, result |-> r])]
    /\ UNCHANGED nonReflVars

\* The held object's type implements Trait by hand, and its upcast_erased
\* answers the request for S with Ok of the erasure of a Box<dyn T>.
UpcastVia(S, T) ==
    /\ refl.held # NoObject /\ Len(refl.trail) < MaxCasts
    /\ LET u == [tag |-> "Ok", target |-> S, obj |-> Object(T, refl.held.id)]
           r == CastUpcastWith(u, S)
       IN refl' = [held |-> r.obj,
                   trail |-> Append(refl.trail, [op |-> "upcast", from |-> refl.held,
                                                 target |-> S, result |-> r])]
    /\ UNCHANGED nonReflVars

\* ------------------------------------------------------- value_derive
\* let mut id = 0; for each variant, each binding takes the current id and
\* counts it up; a variant without bindings takes the current id and leaves
\* it as it is.
RECURSIVE BindingsBefore(_, _)
BindingsBefore(shape, v) ==
    IF v = 1 THEN 0 ELSE BindingsBefore(shape, v - 1) + shape[v - 1]

\* The id written for binding k of variant v (k = 0: v has no bindings).
WireId(shape, v, k) ==
    IF shape[v] = 0 THEN BindingsBefore(shape, v)
    ELSE BindingsBefore(shape, v) + (k - 1)

\* An item of the Derive_Variants enum: V_k(data), or V for a variant
\* without bindings (field 0).
DeriveItem(v, k, data) == [variant |-> v, field |-> k, data |-> data]

\* impl Serialize for Derive_Variants: [id, data], or [id].
DeriveSerialize(shape, item) ==
    IF item.field = 0 THEN <<WireId(shape, item.variant, 0)>>
    ELSE <<WireId(shape, item.variant, item.field), item.data>>

\* What visit_seq's Err(..) stands for here.
DeriveErr == DeriveItem(NoVariant, 0, NoVal)

\* The arms of visit_seq's match on the index, in the order value_derive
\* writes them.
RECURSIVE Arms(_, _)
Arms(shape, v) ==
    IF v > Len(shape) THEN <<>>
    ELSE (IF shape[v] = 0 THEN <<[variant |-> v, field |-> 0]>>
          ELSE [k \in 1..shape[v] |-> [variant |-> v, field |-> k]])
         \o Arms(shape, v + 1)

\* impl Deserialize for Derive_Variants: the first arm whose id is the index
\* is taken; an arm with data reads the next element. Elements that are left
\* over are the format's to judge: one that insists on the end of the
\* sequence (strict) reports them as an error.
DeriveDeserialize(shape, w, strict) ==
    LET arms == Arms(shape, 1)
        hits == {a \in 1..Len(arms) :
                    WireId(shape, arms[a].variant, arms[a].field) = w[1]}
    IN IF Len(w) = 0 \/ hits = {} THEN DeriveErr
       ELSE LET arm == arms[CHOOSE a \in hits : \A b \in hits : a <= b] IN
            IF arm.field = 0
            THEN IF strict /\ Len(w) > 1 THEN DeriveErr
                 ELSE DeriveItem(arm.variant, 0, NoVal)
            ELSE IF Len(w) < 2 THEN DeriveErr
                 ELSE DeriveItem(arm.variant, arm.field, w[2])

\* Stream::select (futures 0.1) over the contexts of the fields:
\*   sel_stream = empty(); for each binding k in declaration order,
\*   sel_stream = stream_k.map(..).select(sel_stream)
\* so level n, the last binding, is the outermost Select and its stream1.
\* A Select polls the stream its flag names first and flips the flag; an
\* item of the second stream flips it back unless the first has ended.
\* ready[k]: the context of binding k holds an item. out: the binding whose
\* item is yielded, NotReady or StreamEnd.
NotReady == 0
StreamEnd == -1

RECURSIVE SelectPoll(_, _, _)
SelectPoll(level, flag, ready) ==
    IF level = 0 THEN [flag |-> flag, out |-> StreamEnd]
    ELSE LET flipped == [flag EXCEPT ![level] = ~flag[level]] IN
         IF ~flag[level]
         THEN IF ready[level] THEN [flag |-> flipped, out |-> level]
              ELSE LET b == SelectPoll(level - 1, flipped, ready) IN
                   IF b.out > 0
                   THEN [flag |-> [b.flag EXCEPT ![level] = flag[level]], out |-> b.out]
                   ELSE [flag |-> b.flag, out |-> NotReady]
         ELSE LET a == SelectPoll(level - 1, flipped, ready) IN
              IF a.out > 0 THEN a
              ELSE IF ready[level]
                   THEN [flag |-> IF a.out = StreamEnd THEN a.flag
                                  ELSE [a.flag EXCEPT ![level] = flag[level]],
                         out |-> level]
                   ELSE [flag |-> a.flag, out |-> NotReady]

\* deconstruct of variant v: a variant without bindings start_sends its
\* item; otherwise every binding gets a context of its own and is
\* deconstructed on it, and the merged stream is forwarded to the sink.
DeriveDeconstruct(shape, v) ==
    LET n == shape[v] IN
    [shape |-> shape, variant |-> v,
     put |-> [k \in 1..n |-> 0], taken |-> [k \in 1..n |-> 0],
     flag |-> [k \in 1..n |-> FALSE],
     sent |-> IF n = 0 THEN <<[field |-> 0, n |-> 0, ready |-> {}]>> ELSE <<>>,
     wire |-> IF n = 0 THEN <<DeriveSerialize(shape, DeriveItem(v, 0, NoVal))>> ELSE <<>>,
     built |-> [state |-> "none", variant |-> NoVariant]]

DeriveNew(shape, v) ==
    /\ derive.variant = NoVariant
    /\ derive' = DeriveDeconstruct(shape, v)
    /\ UNCHANGED nonDeriveVars

\* The deconstruct of binding k puts its next item on its context.
FieldSend(k) ==
    /\ derive.variant # NoVariant
    /\ k \in 1..Len(derive.put)
    /\ derive.put[k] < MaxFieldItems
    /\ derive' = [derive EXCEPT !.put[k] = @ + 1]
    /\ UNCHANGED nonDeriveVars

\* sel_stream.forward(sink) is polled: an item the merged stream yields is
\* mapped to V_k(item) and sent.
ForwardPoll ==
    /\ derive.variant # NoVariant
    /\ Len(derive.put) > 0
    /\ LET ready == [k \in 1..Len(derive.put) |-> derive.put[k] > derive.taken[k]]
           p == SelectPoll(Len(derive.put), derive.flag, ready)
           k == p.out
       IN IF k > 0
          THEN derive' = [derive EXCEPT
                  !.flag = p.flag,
                  !.taken[k] = @ + 1,
                  !.sent = Append(@, [field |-> k, n |-> derive.taken[k] + 1,
                                      ready |-> {j \in 1..Len(ready) : ready[j]}]),
                  !.wire = Append(@, DeriveSerialize(derive.shape,
                                DeriveItem(derive.variant, k, derive.taken[k] + 1)))]
          ELSE derive' = [derive EXCEPT !.flag = p.flag]
    /\ UNCHANGED nonDeriveVars

\* construct: the first item of the stream names the variant that is built;
\* a stream that fails makes construct panic.
DeriveConstruct(strict) ==
    /\ derive.built.state = "none"
    /\ Len(derive.wire) > 0
    /\ LET item == DeriveDeserialize(derive.shape, derive.wire[1], strict) IN
       derive' = [derive EXCEPT !.built =
                    IF item = DeriveErr THEN [state |-> "panic", variant |-> NoVariant]
                    ELSE [state |-> "built", variant |-> item.variant]]
    /\ UNCHANGED nonDeriveVars

\* A process that builds IdChannels: new_with, the spawned tasks, and the
\* IdChannel's stream.
Next ==
    \/ \E k \in Kinds : \E v \in ValuesOf(k) : NewWithFetchAdd(k, v, MaxChannels)
    \/ \E f \in ForkIds : NewWithInsert(f)
    \/ \E f \in ForkIds : TaskRun(f)
    \/ \E f \in ForkIds : UserSend(f)
    \/ \E f \in ForkIds : UserFinish(f)
    \/ \E f \in ForkIds : IdChannelPoll(f)
    \/ \E f \in ForkIds : IdChannelDrop(f)

Spec == Init /\ [][Next]_vars

\* A sub-channel with deconstruct on one end and construct on the other.
PairNext ==
    \/ \E k \in Kinds : \E v \in ValuesOf(k) : PairNew(k, v)
    \/ \E f \in ForkIds : TaskRun(f)
    \/ \E f \in ForkIds : TaskDropped(f)
    \/ \E f \in ForkIds : UserSend(f)
    \/ \E f \in ForkIds : UserRecv(f)
    \/ \E f \in ForkIds : UserFinish(f)
    \/ \E f \in ForkIds : ConstructPoll(f)
    \/ \E f \in ForkIds : PairSendDown(f)
    \/ \E f \in ForkIds : HandleDrop(f)

PairSpec == Init /\ [][PairNext]_vars

\* Sub-channels of user-defined kinds, under an IdChannel or with a consumer
\* on the other end, that carry several frames each way.
FifoNext ==
    \/ \E v \in ValuesOf("user") : NewWithFetchAdd("user", v, MaxChannels)
    \/ \E f \in ForkIds : NewWithInsert(f)
    \/ \E v \in ValuesOf("user") : PairNew("user", v)
    \/ \E f \in ForkIds : UserSend(f)
    \/ \E f \in ForkIds : UserRecv(f)
    \/ \E f \in ForkIds : UserFinish(f)
    \/ \E f \in ForkIds : IdChannelPoll(f)
    \/ \E f \in ForkIds : ConstructPoll(f)
    \/ \E f \in ForkIds : PairSendDown(f)

FifoSpec == Init /\ [][FifoNext]_vars

\* The Fork operations of a channel, called by the task of a user-defined
\* kind that an IdChannel spawned, and the IdChannel's sink.
ForkNext ==
    \/ \E v \in ValuesOf("user") : NewWithFetchAdd("user", v, MaxApiChannels)
    \/ \E f \in ForkIds : NewWithInsert(f)
    \/ \E f \in ForkIds : UserFinish(f)
    \/ \E f \in ForkIds : \E v \in Values : Fork(f, v)
    \/ \E f \in ForkIds : \E r \in 0..MaxId : GetFork(f, r)
    \/ \E g \in 1..Len(getForks) : PollGetFork(g)
    \/ \E f \in ForkIds : \E id \in 0..MaxId : \E d \in Values : Receive(f, id, d)

ForkSpec == Init /\ [][ForkNext]_vars

\* A constructed Sink fed by the peer, and the host's Sink::deconstruct task.
SinkNext ==
    \/ \E op \in SinkOps : \E n \in 1..2 : SinkPoll(op, n)
    \/ \E item \in Values : StartSend(item)
    \/ SinkDrop
    \/ \E ok \in BOOLEAN : HostStep(ok)

SinkSpec == Init /\ [][SinkNext]_vars

\* The same with a peer that may call start_send while the task of the item
\* before is pending.
EagerSinkNext ==
    \/ \E op \in SinkOps : \E n \in 1..2 : SinkPoll(op, n)
    \/ \E item \in Values : StartSend(item)
    \/ \E item \in Values : StartSendPending(item)
    \/ SinkDrop
    \/ \E ok \in BOOLEAN : HostStep(ok)

EagerSinkSpec == Init /\ [][EagerSinkNext]_vars

\* Frames and bytes that arrive from the peer, and the round trip of the
\* ChannelItems of the IdChannels this process built.
Keys == {"channel", "data", "other"}
WireValues == {Num(n) : n \in 0..MaxId}
Entries == Keys \X WireValues
ByteValues == {65, 169, 195}

SeqsUpTo(S, n) == UNION {[1..m -> S] : m \in 0..n}

CodecNext ==
    \/ \E k \in Kinds : \E v \in ValuesOf(k) : NewWithFetchAdd(k, v, MaxApiChannels)
    \/ \E f \in ForkIds : NewWithInsert(f)
    \/ \E f \in ForkIds : \E d \in PayloadsOf(forks[f].kind) : \E hr \in BOOLEAN :
            RoundTrip(f, d, hr)
    \/ \E entries \in SeqsUpTo(Entries, MaxEntries) : DecodeMap(entries)
    \/ \E bytes \in SeqsUpTo(ByteValues, MaxBytes) : DecodeBytes(bytes)

CodecSpec == Init /\ [][CodecNext]_vars

\* A proxy and the shim it is paired with: Calls one way, Responses back.
ArgsOf(m) == [1..ArgCounts[m + 1] -> Values]

ProtoNext ==
    \/ \E m \in Methods : \E args \in ArgsOf(m) : Invoke(m, args)
    \/ RemotePoll
    \/ \E strict \in BOOLEAN : ShimReceive(strict)
    \/ \E i \in 1..Len(shim.inner_stream) : ShimPoll(i)
    \/ \E i \in 1..Len(respWire) : RemoteReceive(i)

ProtoSpec == Init /\ [][ProtoNext]_vars

\* A host that is sent frames the proxy did not write: a method index, any
\* number of arguments, a protocol id.
Frames ==
    {<<m>> \o args \o <<id>> :
        m \in Methods, args \in SeqsUpTo(Values, MaxArgs), id \in 0..MaxId}

CraftedNext ==
    \/ \E frame \in Frames : Crafted(frame)
    \/ \E strict \in BOOLEAN : ShimReceive(strict)
    \/ \E i \in 1..Len(shim.inner_stream) : ShimPoll(i)
    \/ \E i \in 1..Len(respWire) : RemoteReceive(i)

CraftedSpec == Init /\ [][CraftedNext]_vars

\* A reflected object that is cast, and what it yields cast again.
CastNext ==
    \/ \E ty \in ReflTypes : \E id \in 0..MaxObj : NewObject(ty, id)
    \/ \E S \in ReflTypes : Downcast(S)
    \/ \E S \in ReflTypes : Upcast(S)

CastSpec == Init /\ [][CastNext]_vars

\* The same with objects whose implementation of Trait is written by hand.
ImplCastNext ==
    \/ \E ty \in ReflTypes : \E id \in 0..MaxObj : NewObject(ty, id)
    \/ \E S \in ReflTypes : Downcast(S)
    \/ \E S \in ReflTypes : Upcast(S)
    \/ \E S, T \in ReflTypes : UpcastVia(S, T)

ImplCastSpec == Init /\ [][ImplCastNext]_vars

\* A value of a type with a derived Value is deconstructed on one end and
\* constructed on the other.
DeriveNext ==
    \/ \E shape \in Shapes : \E v \in 1..Len(shape) : DeriveNew(shape, v)
    \/ \E k \in 1..MaxFields : FieldSend(k)
    \/ ForwardPoll
    \/ \E strict \in BOOLEAN : DeriveConstruct(strict)

DeriveSpec == Init /\ [][DeriveNext]_vars

\* Primitives and zero-sized kinds, on an IdChannel or with construct on
\* the other end of the sub-channel.
FrameKinds == {"prim"} \cup ZeroSized

UnitNext ==
    \/ \E k \in FrameKinds : \E v \in ValuesOf(k) : PairNew(k, v)
    \/ \E k \in FrameKinds : \E v \in ValuesOf(k) : NewWithFetchAdd(k, v, MaxChannels)
    \/ \E f \in ForkIds : NewWithInsert(f)
    \/ \E f \in ForkIds : TaskRun(f)
    \/ \E f \in ForkIds : TaskDropped(f)
    \/ \E f \in ForkIds : IdChannelPoll(f)
    \/ \E f \in ForkIds : ConstructPoll(f)
    \/ \E f \in ForkIds : HandleDrop(f)

UnitSpec == Init /\ [][UnitNext]_vars

\* The host's shim, whose calls' return values go on putting items on their
\* contexts while later Calls are received.
ShimNext ==
    \/ \E m \in Methods : \E args \in ArgsOf(m) :
            Len(protoLog.issued) < MaxPending /\ Invoke(m, args)
    \/ RemotePoll
    \/ \E strict \in BOOLEAN : ShimReceive(strict)
    \/ \E i \in 1..Len(shim.inner_stream) : ContextPut(i)
    \/ \E i \in 1..Len(shim.inner_stream) : ShimPoll(i)

ShimSpec == Init /\ [][ShimNext]_vars

\* Responses and inlined-response Calls go through their serde, and
\* sequences from the transport are deserialized as Calls.
Responses ==
    {Response(m, data, index, id) :
        m \in Methods, data \in Values, index \in Methods, id \in 0..MaxCalls - 1}

WireNext ==
    \/ \E r \in Responses : ResponseRoundTrip(r)
    \/ \E r \in Responses : InlinedRoundTrip(r)
    \/ \E index \in 0..NumMethods + 1 :
            \E w \in SeqsUpTo(0..NumMethods, MaxWireLen) : InlinedDecode(index, w)

WireSpec == Init /\ [][WireNext]_vars

\* Threads that invoke methods on clones of one proxy while a task polls
\* the outbound stream.
ThreadStep(t) == ProxyInsert(t) \/ ProxyPush(t) \/ ProxyNotify(t)

ProxyNext ==
    \/ \E t \in Threads : \E m \in Methods : ProxyNextId(t, m)
    \/ \E t \in Threads : ProxyInsert(t)
    \/ \E t \in Threads : ProxyPush(t)
    \/ \E t \in Threads : ProxyNotify(t)
    \/ ProxyPoll
    \/ ProxyRegister

ProxySpec == Init /\ [][ProxyNext]_vars

\* The executor runs every task that can run.
FairForkSpec == ForkSpec /\ WF_vars(ForkNext)

\* The peer goes on polling its sink as long as it holds it and a poll can
\* be made, and the host's task is run; feeding and dropping are up to the
\* peer.
FairSinkSpec ==
    /\ SinkSpec
    /\ WF_vars(\E op \in SinkOps : \E n \in 1..2 : SinkPoll(op, n))
    /\ WF_vars(\E ok \in BOOLEAN : HostStep(ok))

\* ================================================================ claims
Data(items) == [i \in 1..Len(items) |-> items[i].data]

PairForks == {f \in ForkIds : forks[f].role = "pair"}
RootForks == {f \in ForkIds : forks[f].role = "root"}

\* C1: for a primitive kind and every value v, once deconstruct has run on
\* one end of a sub-channel and construct has completed on the other end,
\* construct's result is v.
C1_PrimitiveRoundTrip ==
    \A f \in PairForks :
        (/\ forks[f].kind = "prim"
         /\ forks[f].task = "done"
         /\ forks[f].handle.state \notin {"pending", "dropped"})
        => /\ forks[f].handle.state = "ready"
           /\ forks[f].handle.val = forks[f].value

C1_Witness ==
    \E f \in PairForks :
        /\ forks[f].kind = "prim" /\ forks[f].task = "done"
        /\ forks[f].handle.state = "ready" /\ forks[f].handle.val.val = MaxVal

\* C2: within one IdChannel the allocated fork ids, the root id taken by
\* new_with and every id returned by fork, are pairwise distinct.
C2_ForkIdsDistinct ==
    \A f \in ForkIds :
        LET ids == <<forks[f].id>> \o forks[f].forked IN
        forks[f].role \in {"starting", "root"}
        => \A i, j \in 1..Len(ids) : i # j => ids[i] # ids[j]

\* C3: every ChannelItem that an IdChannel's stream yields for the root kind
\* carries fork id 0, however many IdChannels were created before it.
C3_RootIsForkZero ==
    \A f \in RootForks :
        \A i \in 1..Len(forks[f].yielded) : forks[f].yielded[i].channel = 0

\* C4: once a frame for the fork named by a ForkRef has arrived at the
\* IdChannel, the future that get_fork returned for that ForkRef eventually
\* completes.
C4_GetForkCompletes ==
    \A g \in 1..MaxGetForks :
        (/\ Len(getForks) >= g
         /\ lastIn.outcome # "none"
         /\ lastIn.channel = getForks[g].ref)
        ~> (Len(getForks) >= g /\ getForks[g].state = "ready")

\* C5: a ChannelItem (f, payload) given to the IdChannel's sink for an open
\* fork f is accepted and is the newest frame of fork f's inbound queue.
C5_InboundAccepted ==
    (lastIn.outcome # "none" /\ lastIn.open)
    => /\ lastIn.outcome = "Ok"
       /\ \A f \in ForkIds :
            forks[f].id = lastIn.channel
            => /\ forks[f].sentDown # <<>>
               /\ forks[f].sentDown[Len(forks[f].sentDown)] = lastIn.data

\* C6: the frames of one fork are never reordered: what the other end of a
\* sub-channel has taken, followed by what is still queued, is what the task
\* sent, in sending order; every item an IdChannel yields carries its fork's
\* id; and what the task has taken from its inbound queue, followed by what
\* is still queued, is what was sent to it, in sending order.
C6_FifoPerFork ==
    \A f \in ForkIds :
        /\ forks[f].upRx => Data(forks[f].yielded) \o forks[f].up = forks[f].sentUp
        /\ IsPrefix(Data(forks[f].yielded), forks[f].sentUp)
        /\ forks[f].role = "root"
            => \A i \in 1..Len(forks[f].yielded) : forks[f].yielded[i].channel = forks[f].id
        /\ TaskAlive(f) => forks[f].recvDown \o forks[f].down = forks[f].sentDown
        /\ IsPrefix(forks[f].recvDown, forks[f].sentDown)

C6_Witness ==
    /\ \E f \in RootForks : Len(forks[f].yielded) >= 2
    /\ \E f \in PairForks : Len(forks[f].recvDown) >= 2

\* C7: a frame for a fork that is not known locally is buffered: its arrival
\* does not fail.
C7_OrphanBuffered ==
    (lastIn.outcome # "none" /\ ~lastIn.open) => lastIn.outcome = "Ok"

\* C8: when a sub-channel closes, no pending handle panics.
C8_ClosedHandlesFail ==
    \A f \in PairForks :
        (~TaskAlive(f) /\ forks[f].up = <<>>) => forks[f].handle.state # "panicked"

\* C9: for a Future kind, once deconstruct has run and construct has
\* completed, the handle is in the terminal state of the source future:
\* Ok(v) when it resolved Ok(v), Err(e) when it resolved Err(e).
C9_FutureRoundTrip ==
    \A f \in PairForks :
        (/\ forks[f].kind = "future"
         /\ forks[f].task \in {"done", "panicked"}
         /\ forks[f].handle.state \notin {"pending", "dropped"})
        => /\ forks[f].handle.state = "ready"
           /\ forks[f].handle.val = forks[f].value

\* C10: for a Sink kind fed with poll_ready before each start_send, the
\* host's underlying sink is given the items that were fed, each once and in
\* feeding order: what it has been given is always a prefix of what was fed,
\* and is all of it once the last item's task has completed and the host's
\* task has taken every reference.
C10_SinkTrace ==
    /\ IsPrefix(hostTrace, fed)
    /\ (ksink.item.stage = "complete" /\ sinkWire = <<>>) => hostTrace = fed

C10_Witness ==
    /\ Len(fed) = MaxItems /\ hostTrace = fed /\ fed[1] # fed[2]

\* C11: a ChannelItem whose fork id is registered, and whose payload type
\* has a registered deserializer, deserializes from its serialized form to
\* an item with the same fork id and the same payload, in the human-readable
\* form and in the binary form.
C11_ChannelItemRoundTrip ==
    (codec.op = "roundtrip" /\ codec.item.data.ty \in Registry)
    => codec.result = CodecResult("Ok", codec.item, "none")

\* C12: decoding inbound input never panics: whatever map arrives as a
\* ChannelItem, and whatever bytes are given to AsBytes::deserialize, the
\* outcome is a value or an error value.
C12_DecodeNeverPanics ==
    codec.op \in {"decode", "bytes"} => codec.result.tag \in {"Ok", "Err"}

\* C13: a Response for method index i, protocol id p and return item d is
\* serialized as the sequence [i, p, d].
C13_ResponseWireForm ==
    \A k \in 1..Len(respWire) :
        respWire[k].wire = <<respWire[k].resp.index, respWire[k].resp.id,
                             respWire[k].resp.data>>

\* C14: a Response that the shim produced for the Call with protocol id p
\* is, after serialization and deserialization, delivered by the proxy to
\* the sub-channel registered under p, with the item it carried.
C14_ResponseCorrelated ==
    \A k \in 1..Len(protoLog.delivered) :
        LET d == protoLog.delivered[k] IN
        /\ d.tag = "Ok"
        /\ d.to = d.sent.id

\* C15: the proxy's stream yields the Calls in the order in which the
\* method invocations enqueued them, none twice and none skipped: what was
\* yielded, followed by what is queued, is what was issued.
C15_CallsFifo ==
    protoLog.yielded \o remote.queue = protoLog.issued

C15_Witness ==
    /\ Len(protoLog.yielded) = MaxCalls
    /\ protoLog.yielded[1].ident # protoLog.yielded[2].ident

\* The results of the implementation when it is given the calls in order,
\* each once, starting from state.
RECURSIVE Replay(_, _)
Replay(state, calls) ==
    IF calls = <<>> THEN <<>>
    ELSE LET r == InnerCall(state, Head(calls).ident, Head(calls).args) IN
         <<r.result>> \o Replay(r.state, Tail(calls))

ReceivedCalls ==
    LET ok == {k \in 1..Len(protoLog.received) : protoLog.received[k].tag = "Ok"}
        nth[i \in 0..Len(protoLog.received)] ==
            IF i = 0 THEN <<>>
            ELSE IF i \in ok THEN Append(nth[i - 1], protoLog.received[i].call)
            ELSE nth[i - 1]
    IN nth[Len(protoLog.received)]

\* C16: the shim invokes the implementation once per received Call, in the
\* order the Calls are received: the results are those of the calls applied
\* in that order, so that of a Counter holding 7 the first next() returns 7
\* and a next() right after it 8.
C16_InvokedInOrder ==
    /\ [k \in 1..Len(protoLog.invoked) |-> protoLog.invoked[k].call] = ReceivedCalls
    /\ [k \in 1..Len(protoLog.invoked) |-> protoLog.invoked[k].result]
            = Replay(CounterInit, ReceivedCalls)
    /\ (Len(protoLog.invoked) >= 2
        /\ protoLog.invoked[1].call.ident = 0 /\ protoLog.invoked[2].call.ident = 0)
        => /\ protoLog.invoked[1].result = CounterInit
           /\ protoLog.invoked[2].result = CounterInit + 1

C16_Witness ==
    /\ Len(protoLog.invoked) >= 2
    /\ protoLog.invoked[1].call.ident = 0 /\ protoLog.invoked[2].call.ident = 0
    /\ protoLog.invoked[2].result = CounterInit + 1

\* C17: a frame that invokes a method with a wrong number of arguments is
\* answered with the error ArgumentCount, and the method is not run.
WrongCount(frame) ==
    /\ Len(frame) >= 2 /\ frame[1] \in Methods
    /\ Len(frame) - 2 # ArgCounts[frame[1] + 1]

C17_ArgumentCount ==
    \A k \in 1..Len(protoLog.received) :
        WrongCount(protoLog.received[k].frame)
        => /\ protoLog.received[k].tag = "Err"
           /\ protoLog.received[k].error = "ArgumentCount"

\* C18: a downcast of a reflected object to type id t succeeds iff t is the
\* object's own type id, an upcast to t succeeds iff t is in the object's
\* supertrait list, what a successful cast yields is a handle of type t over
\* the same object, and every other cast returns a CastError whose target is
\* t (it does not panic).
C18_CastIff ==
    \A k \in 1..Len(refl.trail) :
        LET c == refl.trail[k]
            satisfied == IF c.op = "downcast" THEN c.target = c.from.this
                         ELSE c.target \in supertraits(c.from.this)
        IN IF satisfied
           THEN c.result = [tag |-> "Ok", target |-> c.target,
                            obj |-> Object(c.target, c.from.id)]
           ELSE c.result = CastError(c.target)

C18_Witness ==
    /\ \E k \in 1..Len(refl.trail) :
        refl.trail[k].op = "upcast" /\ refl.trail[k].result.tag = "Ok"
    /\ \E k \in 1..Len(refl.trail) :
        refl.trail[k].op = "upcast" /\ refl.trail[k].result.tag = "Err"
           /\ refl.trail[k].target = refl.trail[k].from.this

\* An upcast that succeeded, followed by a downcast of what it yielded.
UpThenDown(k) ==
    /\ k + 1 <= Len(refl.trail)
    /\ refl.trail[k].op = "upcast" /\ refl.trail[k].result.tag = "Ok"
    /\ refl.trail[k + 1].op = "downcast"

\* C19, with the downcast back to obj's own type: upcasting obj to a
\* supertrait T that it satisfies and then downcasting the result back to
\* obj's own type succeeds and yields an object equivalent to obj.
C19_UpcastDowncastBack ==
    \A k \in 1..Len(refl.trail) :
        (UpThenDown(k) /\ refl.trail[k + 1].target = refl.trail[k].from.this)
        => refl.trail[k + 1].result = [tag |-> "Ok", target |-> refl.trail[k].from.this,
                                       obj |-> refl.trail[k].from]

\* C19, with the downcast to T: upcasting obj to a supertrait T that it
\* satisfies and then downcasting the result to T succeeds and yields a
\* handle of type T over the same object as obj; downcasting it to obj's own
\* type returns a CastError whose target is that type.
C19_UpcastDowncastSame ==
    \A k \in 1..Len(refl.trail) :
        UpThenDown(k)
        => /\ refl.trail[k + 1].target = refl.trail[k].target
                => refl.trail[k + 1].result = [tag |-> "Ok", target |-> refl.trail[k].target,
                        obj |-> Object(refl.trail[k].target, refl.trail[k].from.id)]
           /\ refl.trail[k + 1].target = refl.trail[k].from.this
                => refl.trail[k + 1].result = CastError(refl.trail[k].from.this)

C19_Witness ==
    \E k \in 1..Len(refl.trail) :
        /\ UpThenDown(k)
        /\ refl.trail[k + 1].target = refl.trail[k].target
        /\ refl.trail[k + 1].result.tag = "Ok"
        /\ refl.trail[k].from.this = "Sub" /\ refl.trail[k].target = "Mid"

\* In a log of a channel's calls, every send of a handle comes after the
\* fork call that returned it.
ForkBeforeSend(log) ==
    \A j \in 1..Len(log) :
        log[j].call = "send"
        => \E i \in 1..(j - 1) : log[i] = Event("fork", log[j].handle)

\* C20: whenever a fork reference is sent on a channel, by the task that
\* start_send of a constructed Sink creates or by the error reply of Sink
\* deconstruct, the fork call that allocated it has completed before the
\* send begins, and every reference in flight names an allocated fork.
C20_ForkBeforeRef ==
    /\ ForkBeforeSend(sinkLog.peer)
    /\ ForkBeforeSend(sinkLog.host)
    /\ \A i \in 1..Len(sinkWire) : sinkWire[i] \in DOMAIN peerForks
    /\ \A i \in 1..Len(replies) : replies[i] \in DOMAIN hostForks

C20_Witness ==
    /\ Len(sinkWire) >= 1 /\ Len(replies) >= 1
    /\ \E j \in 1..Len(sinkLog.peer) : sinkLog.peer[j] = Event("send", 2)

\* The wire ids of the items of variant v.
IdsOf(shape, v) ==
    {WireId(shape, v, k) : k \in (IF shape[v] = 0 THEN {0} ELSE 1..shape[v])}

\* C21: for a type with a derived Value, construct on the frames that
\* deconstruct(v) produced builds the variant of v, and no two variants of
\* the type, with or without fields, have a wire id in common.
C21_VariantRoundTrip ==
    /\ derive.built.state # "none"
       => derive.built = [state |-> "built", variant |-> derive.variant]
    /\ derive.variant # NoVariant
       => \A v, w \in 1..Len(derive.shape) :
            v # w => IdsOf(derive.shape, v) \cap IdsOf(derive.shape, w) = {}

\* C22: the first item of a field is not put on the wire before the first
\* item of a field declared before it: whenever the first item of field k is
\* sent while the first item of an earlier field j waits on its context, j's
\* first item is on the wire already.
C22_DeclarationOrder ==
    \A i \in 1..Len(derive.sent) :
        \A j \in derive.sent[i].ready :
            (derive.sent[i].n = 1 /\ j < derive.sent[i].field)
            => \E h \in 1..(i - 1) : derive.sent[h].field = j

\* C24: every fork id allocated on the peer that called new_with, the id
\* new_with takes for the root and every id that fork returns, is even.
C24_ActiveIdsEven ==
    \A f \in ForkIds :
        forks[f].role \in {"starting", "root"}
        => /\ forks[f].id % 2 = 0
           /\ \A i \in 1..Len(forks[f].forked) : forks[f].forked[i] % 2 = 0

PrimForks == {f \in ForkIds : forks[f].kind = "prim"}

\* C25: the deconstruct task of a primitive calls send once, with the value
\* itself, and then is done, whether the frame was taken or the other end
\* was gone; at no time has it sent a second frame or ended in another way.
C25_PrimitiveOneSend ==
    \A f \in PrimForks :
        /\ forks[f].task \in {"spawned", "done", "dropped"}
        /\ forks[f].task = "done" => forks[f].tried = <<forks[f].value.val>>
        /\ forks[f].task # "done" => forks[f].tried = <<>>
        /\ IsPrefix(forks[f].sentUp, forks[f].tried)

\* The send failed because the other end was dropped, and the task is done.
C25_Witness ==
    \E f \in PrimForks :
        /\ forks[f].role = "pair" /\ forks[f].handle.state = "dropped"
        /\ forks[f].task = "done"
        /\ forks[f].tried = <<MaxVal>> /\ forks[f].sentUp = <<>>

\* C26: for () as for every primitive, a deconstruct task that is done has
\* sent exactly one frame on its sub-channel, and a construct that has
\* completed has received one frame.
C26_UnitOneFrame ==
    \A f \in ForkIds :
        forks[f].kind \in FrameKinds
        => /\ forks[f].task = "done" => Len(forks[f].tried) = 1
           /\ (forks[f].role = "pair" /\ forks[f].handle.state = "ready")
              => Len(forks[f].yielded) = 1

\* C27: the deconstruct task of a Future sends nothing before the wrapped
\* future has completed, and once it has run it has sent exactly one frame,
\* Ok(ForkRef) or Err(ForkRef) as the future resolved, whose ForkRef is the
\* one that fork returned for the resolved value.
C27_FutureOneFrame ==
    \A f \in ForkIds :
        forks[f].kind = "future"
        => /\ forks[f].task = "spawned" => forks[f].tried = <<>>
           /\ forks[f].task \notin {"spawned", "dropped"}
              => /\ Len(forks[f].tried) = 1
                 /\ forks[f].tried[1].tag = forks[f].value.tag
                 /\ forks[f].forked = <<forks[f].tried[1].ref>>

C23_ErrorReported ==
    (replies # <<>>)
    ~> \/ ksink.last.op \in SinkOps /\ ksink.last.result = "Err"
       \/ ksink.last.op = "drop"

\* C28: poll_ready of a constructed Sink returns Pending or Ready(Ok), and
\* Ready(Ok) exactly when the task that the previous start_send created, or
\* the initial task when there was no start_send, has completed.
C28_PollReady ==
    ksink.last.op = "poll_ready"
    => /\ ksink.last.result \in {"Pending", "Ready"}
       /\ ksink.last.result = "Ready" <=> ksink.item.stage = "complete"

\* The Responses emitted so far for the k-th Call the shim was given.
EmittedOf(k) ==
    LET nth[i \in 0..Len(protoLog.emitted)] ==
            IF i = 0 THEN <<>>
            ELSE IF protoLog.emitted[i].stream = k
                 THEN Append(nth[i - 1], protoLog.emitted[i].resp)
                 ELSE nth[i - 1]
    IN nth[Len(protoLog.emitted)]

\* C30: every Response that the shim's stream yields carries the method
\* index and the protocol id of the Call whose return value the item belongs
\* to; the items of one call are yielded in the order its deconstruct put
\* them on the context; and no item of an earlier call is lost when a later
\* Call is received: what was yielded for a call, followed by what its
\* stream still holds, is what was put.
C30_ResponsesOfCalls ==
    /\ Len(shim.inner_stream) = Len(protoLog.invoked)
    /\ \A k \in 1..Len(protoLog.invoked) :
        LET c == protoLog.invoked[k]
            st == shim.inner_stream[k]
            out == EmittedOf(k)
        IN /\ \A i \in 1..Len(out) :
                /\ out[i].ident = c.call.ident
                /\ out[i].index = c.call.ident
                /\ out[i].id = c.call.id
           /\ Data(out) \o st.items = [i \in 1..st.put |-> c.result + i - 1]
    /\ \A i \in 1..Len(protoLog.emitted) :
        protoLog.emitted[i].stream \in 1..Len(protoLog.invoked)

\* Two calls are pending with two items each; the items of the earlier call
\* are yielded around one of the later call, in their order.
C30_Witness ==
    /\ Len(protoLog.invoked) >= 2
    /\ Len(protoLog.emitted) >= 3
    /\ protoLog.emitted[1].stream = 1 /\ protoLog.emitted[2].stream = 2
    /\ protoLog.emitted[3].stream = 1
    /\ protoLog.invoked[1].call.ident # protoLog.invoked[2].call.ident
    /\ protoLog.emitted[3].resp.data = protoLog.invoked[1].result + 1

\* C37: for every Response r, deserialize(serialize(r)) = r: the same method
\* variant, the same protocol id and the same return item.
C37_ResponseRoundTrip ==
    serde.op = "response" => serde.back = [tag |-> "Ok", resp |-> serde.resp]

\* C32: a serialized Call whose index is no method's is deserialized as the
\* inlined-response variant from the element after the index, the variant is
\* serialized with the number of methods as its index, and it round-trips.
C32_InlinedRoundTrip ==
    /\ serde.op = "decode" /\ serde.index >= NumMethods
          => serde.back = ResponseDeserialize(serde.frame)
    /\ serde.op = "inlined"
          => /\ serde.index = NumMethods
             /\ serde.back = [tag |-> "Ok", resp |-> serde.resp]

\* C33: every ChannelItem an IdChannel's stream yields carries a fork id
\* that is in CHANNELS with the construct and deconstruct type ids of the
\* kind.
C33_YieldedIdInTable ==
    \A f \in ForkIds :
        \A i \in 1..Len(forks[f].yielded) :
            /\ forks[f].yielded[i].channel \in DOMAIN CHANNELS
            /\ CHANNELS[forks[f].yielded[i].channel] = TypeIds(forks[f].kind)

\* An IdChannel has yielded an item while the task of another new_with has
\* sent its frame before that new_with has inserted its table entry.
C33_Witness ==
    /\ \E f \in ForkIds : forks[f].yielded # <<>>
    /\ \E g \in ForkIds : forks[g].role = "starting" /\ forks[g].tried # <<>>

InQueue(k) == \E i \in 1..Len(proxy.queue) : proxy.queue[i].id = k

Yielded(k) == \E i \in 1..Len(proxy.yielded) : proxy.yielded[i].id = k

\* C31: every invocation on the proxy or on a clone of it, also concurrent
\* ones, is given a protocol id that no other invocation was given, and that
\* is not in the channels map when the invocation inserts its sub-channel.
C31_DistinctIds ==
    /\ \A i, j \in 1..Len(proxy.owner) :
            i # j => proxy.owner[i].id # proxy.owner[j].id
    /\ \A t \in Threads :
            proxy.threads[t].pc = "insert" => proxy.threads[t].id \notin DOMAIN proxy.channels

\* Two threads have been given their ids before either has inserted its
\* sub-channel.
C31_Witness ==
    \E t, u \in Threads :
        /\ t # u
        /\ proxy.threads[t].pc = "insert" /\ proxy.threads[u].pc = "insert"
        /\ proxy.threads[t].id # proxy.threads[u].id

\* C34: every Call in the outbound queue, and every Call the outbound stream
\* has yielded, has its protocol id in the channels map.
C34_Registered ==
    /\ \A i \in 1..Len(proxy.queue) : proxy.queue[i].id \in DOMAIN proxy.channels
    /\ \A i \in 1..Len(proxy.yielded) : proxy.yielded[i].id \in DOMAIN proxy.channels

\* A Call has been yielded and another is queued while a third invocation
\* has its id and has not inserted its sub-channel yet.
C34_Witness ==
    /\ proxy.yielded # <<>> /\ proxy.queue # <<>>
    /\ \E t \in Threads : proxy.threads[t].pc = "insert"

\* C38: once the task of a constructed Sink has completed, a poll_ready,
\* poll_flush or poll_close returns Ready(Ok(())), however many were made
\* before it.
C38_PollAfterComplete ==
    (ksink.last.op \in SinkOps /\ ksink.item.stage = "complete" /\ host.state = "running")
    => ksink.last.result = "Ready"

\* The send events among the calls of the peer's channel.
PeerSends == {j \in 1..Len(sinkLog.peer) : sinkLog.peer[j].call = "send"}

\* C39: no item that start_send accepted is discarded, also when start_send
\* is called while the task of the item before is pending: once a poll finds
\* the sink's task complete, every item fed has been forked and its
\* reference sent.
C39_NoItemDiscarded ==
    (ksink.last.op \in SinkOps /\ ksink.last.result = "Ready")
    => /\ peerForks = fed
       /\ Cardinality(PeerSends) = Len(fed)

\* C40: Cast::downcast and Cast::upcast never panic: every cast returns Ok
\* with a handle of the requested interface or Err(CastError), also when
\* upcast_erased succeeds and the downcast of what it returned does not.
C40_CastNeverPanics ==
    \A k \in 1..Len(refl.trail) :
        \/ refl.trail[k].result = CastError(refl.trail[k].target)
        \/ /\ refl.trail[k].result.tag = "Ok"
           /\ refl.trail[k].result.obj.this = refl.trail[k].target

\* A method that has begun runs to its end, and the executor polls the
\* stream's task whenever it is new or has been notified.
WakeNext ==
    \/ \E t \in Threads : Len(proxy.owner) < MaxPending /\ ProxyNextId(t, 0)
    \/ \E t \in Threads : ProxyInsert(t)
    \/ \E t \in Threads : ProxyPush(t)
    \/ \E t \in Threads : ProxyNotify(t)
    \/ ProxyPoll
    \/ ProxyRegister

FairProxySpec ==
    /\ Init /\ [][WakeNext]_vars
    /\ \A t \in Threads : WF_vars(ThreadStep(t))
    /\ WF_vars(ProxyPoll)
    /\ WF_vars(ProxyRegister)

\* C35: no wakeup is lost: a Call that is in the outbound queue is eventually
\* yielded by the outbound stream, also when it is enqueued while a poll of
\* the stream has found the queue empty and is registering its task.
C35_NoLostWakeup ==
    \A k \in 0..MaxInvocations - 1 : InQueue(k) ~> Yielded(k)

\* A poll has found the queue empty and is about to register its task while
\* a thread is at its push_back, after an earlier Call was yielded.
C35_Witness ==
    /\ proxy.stream.pc = "register"
    /\ \E t \in Threads : proxy.threads[t].pc = "push"
    /\ proxy.yielded # <<>>

\* C36: the Calls of invocations that threads make concurrently on clones of
\* one proxy leave the outbound stream in increasing order of their protocol
\* ids, the order in which the ids were allocated.
C36_IdOrder ==
    \A i, j \in 1..Len(proxy.yielded) :
        i < j => proxy.yielded[i].id < proxy.yielded[j].id

====
